---- MODULE Spec2Model ----
(***************************************************************************)
(* video-decode-bench: the bounded packet queue, the packet reader, the    *)
(* paced decode workers (thread-per-stream and pooled), the run harness    *)
(* and the capacity search of BenchmarkRunner, as state machines.          *)
(***************************************************************************)
EXTENDS Integers, Sequences, FiniteSets, TLC

(***************************************************************************)
(* Bounds of the model                                                     *)
(***************************************************************************)
\* capacity the queues of the model are constructed with (max_size_)
QueueCap == 3
\* greatest configured max_streams the capacity search is run with
MaxStreamsCfg == 30
\* greatest stream count of a modelled run, and greatest cpu_cores of its host
MaxStreams == 2
MaxCores == 2
\* capacity of the stream queues of a modelled run (the program uses 32)
RunQueueCap == 1
\* packets in one pass over the source
SrcLen == 1
\* av_read_frame calls a reader makes at most: in a run of one stream, and in
\* a run of several streams
MaxReads == 5
MaxReadsRun == 1
\* frames a decoder holds back at most (B-frame reordering)
MaxBuffered == 1
\* calls of push and pushFlushMarker made on the queue that is checked alone
MaxPushes == 4
\* greatest stream count and cpu_cores a single test is configured for
MaxSingleStreams == 5
MaxSingleCores == 8
\* the timed run: the frame interval, the time up to which threads are held
\* up between their steps (later the clock moves in sleep_until alone) in a
\* run of one stream and in a run of several streams, in milliseconds, and
\* the packets a single stream is fed at most
FrameInterval == 2
MaxClock == 4
MaxClockRun == 1
MaxFedPace == 3
\* packets a stream of the multi-stream scan is fed at most
MaxFedScan == 1
\* packets a single stream is fed at most where the frames are counted
MaxFed == 17
\* the measurement window of a timed single-stream run, in clock units
MeasurementDuration == 8
\* passes over the source a stream of the timed run is fed at most
MaxPasses == 2
\* cpu_cores of the timed run
MaxPaceCores == 3

(***************************************************************************)
(* Program constants                                                       *)
(***************************************************************************)
kPowerOfTwoMaxStreams == 16
kExtraStepStreams == 12
kLinearStepSize == 4
kLinearStepStart == 20
kBatchSize == 16
\* kFpsTolerance = 0.98, in percent
kFpsTolerance == 98
kMultiThreadStreamThreshold == 4
\* lag_tolerance = 1ms
lag_tolerance == 1

VARIABLES
    \* ---- a PacketQueue driven by a producer and a consumer
    pq,             \* [items: Seq(packet), eof: BOOLEAN]  (queue_, eof_)
    pq_op,          \* the last operation that returned ("consume": the consumer's)
    pq_ret,         \* what it returned: "true", "false", "item", "none", "void"
    pq_arg,         \* the item the last push or pushFlushMarker was to append
    timed_out,      \* the wait_for of the last operation ended by its timeout
    space_callback_,\* a space callback is registered (setSpaceCallback)
    c_pc,           \* the consumer inside pop: "idle", "unlocked" (lock scope left)
    c_did_pop,      \* pop's local did_pop
    c_packet,       \* pop's local packet
    cb_calls,       \* invocations of the space callback so far
    cb_under_lock,  \* an invocation happened inside the lock scope
    pq_pushed,      \* items appended by successful pushes, in order
    pq_popped,      \* items returned by successful pops, in order
    pq_cleared,     \* clear() removed queued items
    c_owned,        \* what pop returned to the consumer and it still holds
    pq_freed,       \* the packet copies given to av_packet_free, in order
    \* ---- BenchmarkRunner::run
    b_pc,           \* "loop", "bsearch", "finish", "done"
    b_cfg,          \* config_.max_streams
    b_idx,          \* position in stream_counts (1-based)
    b_count,        \* the failing candidate the binary search works under
    last_passing,
    low,
    high,
    test_results,   \* result.test_results: Seq([stream_count, passed])
    res_max_streams,
    res_success,
    res_error,      \* result.error_message: "" or the run's message
    progress_callback,  \* run() was given a progress callback
    events,         \* the runs and the callback invocations, in program order
    \* ---- one run (runSingleTest): its inputs
    stream_count,
    cpu_cores,
    is_live_stream, \* video_info_.is_live_stream
    read_cap,       \* packets each reader may read (model bound)
    m_pc,           \* main: "parse", "analyze", "run", "exit"
    video_path,     \* the source given on the command line: <<scheme, rest>>
    \* ---- one single test: how it is set up and how its result is judged
    s_pc,           \* "select", "configure", "measure", "done"
    s_mode,         \* "none", "direct", "pool"
    decoder_threads,
    s_worker_count, \* worker threads the test is set up with
    s_reader_count, \* reader_count handed to the pool; readers of a direct test
    target_fps,
    elapsed,        \* seconds
    per_stream_frames,
    cpu_usage,      \* percent
    cpu_threshold,  \* config_.cpu_threshold, percent
    min_fps,        \* a rate <<frames, seconds>>
    fps_passed,
    cpu_passed,
    passed,
    \* ---- the harness (runSingleTestDirect / runSingleTestPool)
    h_pc,
    stop_flag,
    barrier_arrived,    \* arrivals at start_barrier
    init_error,         \* DecoderPool::init_error_
    init_error_message, \* DecoderPool::init_error_message_
    sr_has_error,       \* single_result.has_error
    sr_error,           \* single_result.error_message
    h_start,            \* start_time of the harness, taken after the barrier
    h_elapsed,          \* end_time - start_time, taken after stop_flag is set
    measurement_duration, \* config_.measurement_duration, in clock units
    d_delay,            \* frames the codec of the run can hold back
    worker_count_,      \* DecoderPool::worker_count_
    init_fails,         \* per stream, the init call that fails: "ok", "reader", "decoder"
    streams_,           \* DecoderPool::streams_: what each StreamContext holds
    \* ---- per stream: its queue and its PacketReader
    queue,
    r_pc,           \* "none", "loop", "flushmark", "push", "exit", "done"
    r_pos,          \* packets read in the current pass over the source
    r_pass,         \* the pass over the source, from 1
    r_seq,          \* video packets read so far
    r_has_error,
    r_error,
    \* ---- per stream: its worker (DecoderThread, or a DecoderPool worker)
    w_pc,
    total_frames,
    frames_decoded,
    has_error,
    error_message,
    finished,
    init_done,      \* DecoderPool::init_done_
    arrivals,       \* times the worker arrived at start_barrier
    \* ---- per stream: its decoder, as its calls show it
    d_buf,          \* frames held back in the decoder
    d_last,         \* the last call: "none", "packet", "nullptr", "flushBuffers"
    d_pass,         \* pass of the last packet given to decodeFromPacket
    d_flushed,      \* flushBuffers was called since that packet
    last_seq,       \* seq of the last packet the worker popped
    \* ---- reader-pool threads (DecoderPool::readerLoop)
    rp_pc,          \* "none", "check", "scan", "wait", "woken", "signal", "done"
    rp_idx,
    any_active,
    any_did_work,
    \* ---- time, and the pacing state of every stream
    clock,          \* Clock::now(), in frame intervals
    start_time_,    \* DecoderPool::start_time_
    next_frame_time,
    lag_count,
    max_lag_ms,
    t0,             \* the time next_frame_time was seeded with
    \* ---- per worker: the locals of the multi-stream path of workerLoop
    scan_idx,       \* position in my_streams, from 1
    scan_now,       \* now
    earliest_next,
    scan_any_active,
    any_starved

qvars == <<pq, pq_op, pq_ret, pq_arg, timed_out, space_callback_, c_pc, c_did_pop,
           c_packet, cb_calls, cb_under_lock, pq_pushed, pq_popped, pq_cleared,
           c_owned, pq_freed>>
bvars == <<b_pc, b_cfg, b_idx, b_count, last_passing, low, high, test_results,
           res_max_streams, res_success, res_error, progress_callback, events>>
cfgvars == <<stream_count, cpu_cores, is_live_stream, read_cap, m_pc, video_path,
             measurement_duration, d_delay, worker_count_, init_fails, streams_>>
svars == <<s_pc, s_mode, decoder_threads, s_worker_count, s_reader_count, target_fps,
           elapsed, per_stream_frames, cpu_usage, cpu_threshold, min_fps, fps_passed,
           cpu_passed, passed>>
hvars == <<h_pc, stop_flag, barrier_arrived, init_error, init_error_message,
           sr_has_error, sr_error, h_start, h_elapsed>>
rdvars == <<r_pc, r_pos, r_pass, r_seq, r_has_error, r_error>>
wvars == <<w_pc, total_frames, frames_decoded, has_error, error_message, finished,
           init_done, arrivals>>
dvars == <<d_buf, d_last, d_pass, d_flushed, last_seq>>
rpvars == <<rp_pc, rp_idx, any_active, any_did_work>>
pvars == <<clock, start_time_, next_frame_time, lag_count, max_lag_ms, t0>>
msvars == <<scan_idx, scan_now, earliest_next, scan_any_active, any_starved>>
runvars == <<cfgvars, svars, pvars, hvars, queue, rdvars, wvars, dvars, rpvars, msvars>>
vars == <<qvars, bvars, runvars>>

(***************************************************************************)
(* PacketQueue                                                             *)
(***************************************************************************)
\* the flush marker: queue_.push(nullptr)
nullptr == [seq |-> 0, pass |-> 0]

NewQueue == [items |-> <<>>, eof |-> FALSE]

\* (mutant) the wait predicate lets one item too many in
SpaceAvailable_OffByOne(Q, max_size) == Len(Q.items) <= max_size \/ Q.eof

\* the wait predicate of push and pushFlushMarker
SpaceAvailable(Q, max_size) == Len(Q.items) < max_size \/ Q.eof

\* push(packet, timeout): the value returned once the wait is over; cloneOk is
\* whether av_packet_clone gave a copy. A full queue without eof ends the wait
\* only by its timeout.
pushReturns(Q, max_size, cloneOk) ==
    IF ~SpaceAvailable(Q, max_size) \/ Q.eof THEN FALSE
    ELSE cloneOk

\* (mutant) the packet is queued before the copy is known to exist
push_AppendsUncloned(Q, max_size, packet, cloneOk) ==
    IF ~SpaceAvailable(Q, max_size) \/ Q.eof THEN Q
    ELSE [Q EXCEPT !.items = Append(@, packet)]

push(Q, max_size, packet, cloneOk) ==
    IF pushReturns(Q, max_size, cloneOk)
    THEN [Q EXCEPT !.items = Append(@, packet)]
    ELSE Q

\* (mutant) pushFlushMarker does not look at eof_ after its wait
pushFlushMarkerReturns_IgnoresEof(Q, max_size) == SpaceAvailable(Q, max_size)

pushFlushMarkerReturns(Q, max_size) ==
    ~(~SpaceAvailable(Q, max_size) \/ Q.eof)

pushFlushMarker(Q, max_size) ==
    IF pushFlushMarkerReturns(Q, max_size)
    THEN [Q EXCEPT !.items = Append(@, nullptr)]
    ELSE Q

signalEof(Q) == [Q EXCEPT !.eof = TRUE]

\* pop(timeout): did_pop, the packet returned and the queue left behind
\* (mutant) pop gives up on a queue whose eof is set
popDidPop_NotAfterEof(Q) == Q.items # <<>> /\ ~Q.eof

popDidPop(Q) == Q.items # <<>>

\* (mutant) pop hands out the newest item
popPacket_Last(Q) == Q.items[Len(Q.items)]

popPacket(Q) == Head(Q.items)
pop(Q) == IF popDidPop(Q) THEN [Q EXCEPT !.items = Tail(@)] ELSE Q

\* (mutant) isEof() does not look at the queue: return eof_
isEof_IgnoresItems(Q) == Q.eof
\* isEof(): eof_ && queue_.empty()
isEof(Q) == Q.eof /\ Q.items = <<>>
size(Q) == Len(Q.items)
clear(Q) == [Q EXCEPT !.items = <<>>]
\* (mutant) clear() hands every queued pointer to av_packet_free
cleared_All(Q) == Q.items
\* clear(): if (pkt) av_packet_free(&pkt), for the items from the front on
cleared(Q) == SelectSeq(Q.items, LAMBDA pkt : pkt # nullptr)

\* the wait of push / pushFlushMarker / pop ends by its timeout: the predicate
\* it waits for does not hold
pushTimesOut(Q, max_size) == ~SpaceAvailable(Q, max_size)
popTimesOut(Q) == Q.items = <<>> /\ ~Q.eof

\* ---- a producer and a consumer calling the queue in any order
QPackets == {[seq |-> 1, pass |-> 1], [seq |-> 2, pass |-> 1]}

InitQueue(callbacks) ==
    /\ pq = NewQueue
    /\ pq_op = "none"
    /\ pq_ret = "void"
    /\ pq_arg = nullptr
    /\ timed_out = FALSE
    /\ space_callback_ \in callbacks
    /\ c_pc = "idle"
    /\ c_did_pop = FALSE
    /\ c_packet = nullptr
    /\ cb_calls = 0
    /\ cb_under_lock = FALSE
    /\ pq_pushed = <<>>
    /\ pq_popped = <<>>
    /\ pq_cleared = FALSE
    /\ c_owned = <<>>
    /\ pq_freed = <<>>

\* what the consumer side keeps while the producer acts
consumer_vars == <<space_callback_, c_pc, c_did_pop, c_packet, cb_calls,
                   cb_under_lock, pq_popped, pq_cleared, c_owned, pq_freed>>

\* a push returns: at once when there is space or eof, by timeout when full
QPush ==
    \E p \in QPackets, cloneOk \in BOOLEAN :
        /\ Len(pq_pushed) < MaxPushes
        /\ pq' = push(pq, QueueCap, p, cloneOk)
        /\ pq_op' = "push"
        /\ pq_ret' = IF pushReturns(pq, QueueCap, cloneOk) THEN "true" ELSE "false"
        /\ pq_arg' = p
        /\ timed_out' = pushTimesOut(pq, QueueCap)
        /\ pq_pushed' = pq_pushed \o SubSeq(pq'.items, Len(pq.items) + 1, Len(pq'.items))
        /\ UNCHANGED <<consumer_vars, bvars, runvars>>

QPushFlushMarker ==
    /\ Len(pq_pushed) < MaxPushes
    /\ pq' = pushFlushMarker(pq, QueueCap)
    /\ pq_op' = "pushFlushMarker"
    /\ pq_ret' = IF pushFlushMarkerReturns(pq, QueueCap) THEN "true" ELSE "false"
    /\ pq_arg' = nullptr
    /\ timed_out' = pushTimesOut(pq, QueueCap)
    /\ pq_pushed' = pq_pushed \o SubSeq(pq'.items, Len(pq.items) + 1, Len(pq'.items))
    /\ UNCHANGED <<consumer_vars, bvars, runvars>>

\* (mutant) the space callback is invoked inside the lock scope
QPop_CallbackUnderLock ==
    /\ c_pc = "idle"
    /\ c_owned = <<>>
    /\ pq' = pop(pq)
    /\ c_did_pop' = popDidPop(pq)
    /\ c_packet' = IF popDidPop(pq) THEN popPacket(pq) ELSE nullptr
    /\ timed_out' = popTimesOut(pq)
    /\ c_pc' = "unlocked"
    /\ pq_op' = "pop"
    /\ pq_ret' = "void"
    /\ cb_calls' = IF popDidPop(pq) /\ space_callback_ THEN cb_calls + 1 ELSE cb_calls
    /\ cb_under_lock' = (cb_under_lock \/ (popDidPop(pq) /\ space_callback_))
    /\ UNCHANGED <<pq_arg, space_callback_, pq_pushed, pq_popped, pq_cleared, c_owned,
                   pq_freed>>
    /\ UNCHANGED <<bvars, runvars>>

\* pop, the lock scope: wait for an item or eof, take the head when there is
\* one; the lock is released at the end of the scope
QPop ==
    /\ c_pc = "idle"
    /\ c_owned = <<>>
    /\ pq' = pop(pq)
    /\ c_did_pop' = popDidPop(pq)
    /\ c_packet' = IF popDidPop(pq) THEN popPacket(pq) ELSE nullptr
    /\ timed_out' = popTimesOut(pq)
    /\ c_pc' = "unlocked"
    /\ pq_op' = "pop"
    /\ pq_ret' = "void"
    /\ UNCHANGED <<pq_arg, space_callback_, cb_calls, cb_under_lock, pq_pushed,
                   pq_popped, pq_cleared, c_owned, pq_freed>>
    /\ UNCHANGED <<bvars, runvars>>

\* pop, after the lock scope: if (did_pop) { if (space_callback_)
\* space_callback_(); return packet; } return std::nullopt;
QPopReturn ==
    /\ c_pc = "unlocked"
    /\ c_pc' = "idle"
    /\ pq_op' = "pop"
    /\ pq_ret' = IF c_did_pop THEN "item" ELSE "none"
    /\ cb_calls' = IF c_did_pop /\ space_callback_ THEN cb_calls + 1 ELSE cb_calls
    /\ pq_popped' = IF c_did_pop THEN Append(pq_popped, c_packet) ELSE pq_popped
    /\ c_owned' = IF c_did_pop THEN <<c_packet>> ELSE c_owned
    /\ UNCHANGED <<pq, pq_arg, timed_out, space_callback_, c_did_pop, c_packet,
                   cb_under_lock, pq_pushed, pq_cleared, pq_freed>>
    /\ UNCHANGED <<bvars, runvars>>

\* the results of VideoDecoder::decodeFromPacket the consumer tells apart
QOutcomes == {"frame", "noframe", "error"}

\* (mutant) the decode-error path leaves the loop without releasing the packet
QConsume_LeakOnError ==
    /\ c_pc = "idle"
    /\ c_owned # <<>>
    /\ \E outcome \in QOutcomes :
         pq_freed' = IF c_owned[1] = nullptr \/ outcome = "error" THEN pq_freed
                     ELSE Append(pq_freed, c_owned[1])
    /\ c_owned' = <<>>
    /\ pq_op' = "consume"
    /\ pq_ret' = "void"
    /\ UNCHANGED <<pq, pq_arg, timed_out, space_callback_, c_pc, c_did_pop,
                   c_packet, cb_calls, cb_under_lock, pq_pushed, pq_popped, pq_cleared>>
    /\ UNCHANGED <<bvars, runvars>>

\* the consumer with what pop returned: if (!packet) { flushBuffers();
\* continue; }  result = decodeFromPacket(packet); av_packet_free(&packet);
\* and only then the branches on the result
QConsume ==
    /\ c_pc = "idle"
    /\ c_owned # <<>>
    /\ \E outcome \in QOutcomes :
         pq_freed' = IF c_owned[1] = nullptr THEN pq_freed
                     ELSE Append(pq_freed, c_owned[1])
    /\ c_owned' = <<>>
    /\ pq_op' = "consume"
    /\ pq_ret' = "void"
    /\ UNCHANGED <<pq, pq_arg, timed_out, space_callback_, c_pc, c_did_pop,
                   c_packet, cb_calls, cb_under_lock, pq_pushed, pq_popped, pq_cleared>>
    /\ UNCHANGED <<bvars, runvars>>

QSignalEof ==
    /\ pq' = signalEof(pq)
    /\ pq_op' = "signalEof"
    /\ pq_ret' = "void"
    /\ UNCHANGED <<pq_arg, timed_out, pq_pushed, consumer_vars, bvars, runvars>>

\* ~PacketQueue: clear(), once the producer and the consumer are done with
\* their calls
QClear ==
    /\ c_pc = "idle"
    /\ c_owned = <<>>
    /\ pq' = clear(pq)
    /\ pq_op' = "clear"
    /\ pq_ret' = "void"
    /\ pq_cleared' = (pq_cleared \/ pq.items # <<>>)
    /\ pq_freed' = pq_freed \o cleared(pq)
    /\ UNCHANGED <<pq_arg, timed_out, pq_pushed, space_callback_, c_pc, c_did_pop,
                   c_packet, cb_calls, cb_under_lock, pq_popped, c_owned>>
    /\ UNCHANGED <<bvars, runvars>>

NextQueue ==
    \/ QPush
    \/ QPushFlushMarker
    \/ QPop
    \/ QPopReturn
    \/ QConsume
    \/ QSignalEof
    \/ QClear

(***************************************************************************)
(* BenchmarkRunner::getStreamCountsToTest                                  *)
(***************************************************************************)
InSeq(s, x) == \E i \in 1..Len(s) : s[i] = x

RECURSIVE PowersOfTwo(_, _, _)
PowersOfTwo(n, max_streams, counts) ==
    IF n <= kPowerOfTwoMaxStreams /\ n <= max_streams
    THEN PowersOfTwo(n * 2, max_streams, Append(counts, n))
    ELSE counts

RECURSIVE LinearSteps(_, _, _)
LinearSteps(n, max_streams, counts) ==
    IF n <= max_streams
    THEN LinearSteps(n + kLinearStepSize, max_streams, Append(counts, n))
    ELSE counts

RECURSIVE InsertSorted(_, _)
InsertSorted(s, x) ==
    IF s = <<>> THEN <<x>>
    ELSE IF x < Head(s) THEN <<x>> \o s
    ELSE <<Head(s)>> \o InsertSorted(Tail(s), x)

RECURSIVE sortCounts(_)
sortCounts(s) == IF s = <<>> THEN <<>> ELSE InsertSorted(sortCounts(Tail(s)), Head(s))

\* (mutant) the list is returned as it was collected, without std::sort
getStreamCountsToTest_Unsorted(max_streams) ==
    LET c1 == PowersOfTwo(1, max_streams, <<>>)
        c2 == IF max_streams >= kExtraStepStreams /\ ~InSeq(c1, kExtraStepStreams)
              THEN Append(c1, kExtraStepStreams) ELSE c1
        c3 == LinearSteps(kLinearStepStart, max_streams, c2)
        c4 == IF ~InSeq(c3, max_streams) THEN Append(c3, max_streams) ELSE c3
    IN c4

getStreamCountsToTest(max_streams) ==
    LET c1 == PowersOfTwo(1, max_streams, <<>>)
        c2 == IF max_streams >= kExtraStepStreams /\ ~InSeq(c1, kExtraStepStreams)
              THEN Append(c1, kExtraStepStreams) ELSE c1
        c3 == LinearSteps(kLinearStepStart, max_streams, c2)
        c4 == IF ~InSeq(c3, max_streams) THEN Append(c3, max_streams) ELSE c3
    IN sortCounts(c4)

(***************************************************************************)
(* BenchmarkRunner::run: the capacity search. A single run (runSingleTest)  *)
(* passes, fails or reports an error.                                      *)
(***************************************************************************)
RunOutcomes == {"pass", "fail", "error"}
\* the error messages a run may return
RunErrors == {"Thread 0: Read error", "Stream 0: Init failed"}

stream_counts == getStreamCountsToTest(b_cfg)

\* runSingleTest(count, target_fps) returned single_result
RunEvent(count, errored, message, pass) ==
    [kind |-> "run", stream_count |-> count, has_error |-> errored,
     error_message |-> message, passed |-> pass]

\* (mutant) only the results that passed are reported
Progress_OnlyPassed(count, pass) ==
    IF progress_callback /\ pass
    THEN <<[kind |-> "progress", stream_count |-> count, has_error |-> FALSE,
            error_message |-> "", passed |-> pass]>>
    ELSE <<>>

\* if (progress_callback) progress_callback(single_result.result)
Progress(count, pass) ==
    IF progress_callback
    THEN <<[kind |-> "progress", stream_count |-> count, has_error |-> FALSE,
            error_message |-> "", passed |-> pass]>>
    ELSE <<>>

InitBench(configured, callbacks) ==
    /\ b_cfg \in configured
    /\ progress_callback \in callbacks
    /\ events = <<>>
    /\ b_pc = "loop"
    /\ b_idx = 1
    /\ b_count = 0
    /\ last_passing = 0
    /\ low = 0
    /\ high = 0
    /\ test_results = <<>>
    /\ res_max_streams = 0
    /\ res_success = FALSE
    /\ res_error = ""

\* (mutant) the error is recorded and the search goes on
Abort_GoesOn(message) ==
    /\ res_error' = message
    /\ res_success' = FALSE
    /\ UNCHANGED <<qvars, runvars, b_pc, b_cfg, progress_callback, b_idx, b_count,
                   last_passing, low, high, test_results, res_max_streams>>

\* return result: on a run error
Abort(message) ==
    /\ res_error' = message
    /\ res_success' = FALSE
    /\ b_pc' = "done"
    /\ UNCHANGED <<qvars, runvars, b_cfg, progress_callback, b_idx, b_count,
                   last_passing, low, high, test_results, res_max_streams>>

\* one iteration of for (int count : stream_counts)
RunCandidate ==
    /\ b_pc = "loop"
    /\ b_idx <= Len(stream_counts)
    /\ LET count == stream_counts[b_idx] IN
       \E outcome \in RunOutcomes :
          IF outcome = "error"
          THEN \E message \in RunErrors :
                  /\ Abort(message)
                  /\ events' = Append(events, RunEvent(count, TRUE, message, FALSE))
          ELSE /\ test_results' = Append(test_results,
                     [stream_count |-> count, passed |-> (outcome = "pass")])
               /\ events' = events \o <<RunEvent(count, FALSE, "", outcome = "pass")>>
                                \o Progress(count, outcome = "pass")
               /\ IF outcome = "pass"
                  THEN /\ last_passing' = count
                       /\ b_idx' = b_idx + 1
                       /\ UNCHANGED <<b_pc, b_count, low, high>>
                  ELSE /\ b_count' = count
                       /\ IF last_passing > 0 /\ count - last_passing > 1
                          THEN /\ low' = last_passing + 1
                               /\ high' = count - 1
                               /\ b_pc' = "bsearch"
                          ELSE /\ b_pc' = "finish"
                               /\ UNCHANGED <<low, high>>
                       /\ UNCHANGED <<last_passing, b_idx>>
               /\ UNCHANGED <<qvars, runvars, b_cfg, progress_callback, res_max_streams,
                              res_success, res_error>>

\* the for loop ran out of candidates
RunLoopEnd ==
    /\ b_pc = "loop"
    /\ b_idx > Len(stream_counts)
    /\ b_pc' = "finish"
    /\ UNCHANGED <<qvars, runvars, b_cfg, progress_callback, b_idx, b_count, last_passing, low, high, test_results, events,
                   res_max_streams, res_success, res_error>>

\* (mutant) the search goes on in the half below a passing probe and above a
\* failing one
RunBinaryProbe_WrongHalf ==
    /\ b_pc = "bsearch"
    /\ IF low <= high
       THEN LET mid == low + (high - low) \div 2 IN
            \E outcome \in RunOutcomes :
               IF outcome = "error"
               THEN \E message \in RunErrors :
                       /\ Abort(message)
                       /\ events' = Append(events, RunEvent(mid, TRUE, message, FALSE))
               ELSE /\ test_results' = Append(test_results,
                          [stream_count |-> mid, passed |-> (outcome = "pass")])
                    /\ events' = events \o <<RunEvent(mid, FALSE, "", outcome = "pass")>>
                                     \o Progress(mid, outcome = "pass")
                    /\ IF outcome = "pass"
                       THEN /\ last_passing' = mid
                            /\ high' = mid - 1
                            /\ UNCHANGED low
                       ELSE /\ low' = mid + 1
                            /\ UNCHANGED <<last_passing, high>>
                    /\ UNCHANGED <<qvars, runvars, b_pc, b_cfg, progress_callback, b_idx, b_count, res_max_streams,
                                   res_success, res_error>>
       ELSE /\ b_pc' = "finish"
            /\ UNCHANGED <<qvars, runvars, b_cfg, progress_callback, b_idx, b_count, last_passing, low, high,
                           test_results, events, res_max_streams, res_success, res_error>>

\* (mutant) a passing probe moves low but does not record last_passing
RunBinaryProbe_KeepsLastPassing ==
    /\ b_pc = "bsearch"
    /\ IF low <= high
       THEN LET mid == low + (high - low) \div 2 IN
            \E outcome \in RunOutcomes :
               IF outcome = "error"
               THEN \E message \in RunErrors :
                       /\ Abort(message)
                       /\ events' = Append(events, RunEvent(mid, TRUE, message, FALSE))
               ELSE /\ test_results' = Append(test_results,
                          [stream_count |-> mid, passed |-> (outcome = "pass")])
                    /\ events' = events \o <<RunEvent(mid, FALSE, "", outcome = "pass")>>
                                     \o Progress(mid, outcome = "pass")
                    /\ IF outcome = "pass"
                       THEN /\ low' = mid + 1
                            /\ UNCHANGED <<last_passing, high>>
                       ELSE /\ high' = mid - 1
                            /\ UNCHANGED <<last_passing, low>>
                    /\ UNCHANGED <<qvars, runvars, b_pc, b_cfg, progress_callback, b_idx, b_count, res_max_streams,
                                   res_success, res_error>>
       ELSE /\ b_pc' = "finish"
            /\ UNCHANGED <<qvars, runvars, b_cfg, progress_callback, b_idx, b_count, last_passing, low, high,
                           test_results, events, res_max_streams, res_success, res_error>>

\* (mutant) a failing probe stays in the interval: high = mid
RunBinaryProbe_KeepsFailed ==
    /\ b_pc = "bsearch"
    /\ IF low <= high
       THEN LET mid == low + (high - low) \div 2 IN
            \E outcome \in RunOutcomes :
               IF outcome = "error"
               THEN \E message \in RunErrors :
                       /\ Abort(message)
                       /\ events' = Append(events, RunEvent(mid, TRUE, message, FALSE))
               ELSE /\ test_results' = Append(test_results,
                          [stream_count |-> mid, passed |-> (outcome = "pass")])
                    /\ events' = events \o <<RunEvent(mid, FALSE, "", outcome = "pass")>>
                                     \o Progress(mid, outcome = "pass")
                    /\ IF outcome = "pass"
                       THEN /\ last_passing' = mid
                            /\ low' = mid + 1
                            /\ UNCHANGED high
                       ELSE /\ high' = mid
                            /\ UNCHANGED <<last_passing, low>>
                    /\ UNCHANGED <<qvars, runvars, b_pc, b_cfg, progress_callback, b_idx, b_count, res_max_streams,
                                   res_success, res_error>>
       ELSE /\ b_pc' = "finish"
            /\ UNCHANGED <<qvars, runvars, b_cfg, progress_callback, b_idx, b_count, last_passing, low, high,
                           test_results, events, res_max_streams, res_success, res_error>>

\* one iteration of while (low <= high), or its exit and the break
RunBinaryProbe ==
    /\ b_pc = "bsearch"
    /\ IF low <= high
       THEN LET mid == low + (high - low) \div 2 IN
            \E outcome \in RunOutcomes :
               IF outcome = "error"
               THEN \E message \in RunErrors :
                       /\ Abort(message)
                       /\ events' = Append(events, RunEvent(mid, TRUE, message, FALSE))
               ELSE /\ test_results' = Append(test_results,
                          [stream_count |-> mid, passed |-> (outcome = "pass")])
                    /\ events' = events \o <<RunEvent(mid, FALSE, "", outcome = "pass")>>
                                     \o Progress(mid, outcome = "pass")
                    /\ IF outcome = "pass"
                       THEN /\ last_passing' = mid
                            /\ low' = mid + 1
                            /\ UNCHANGED high
                       ELSE /\ high' = mid - 1
                            /\ UNCHANGED <<last_passing, low>>
                    /\ UNCHANGED <<qvars, runvars, b_pc, b_cfg, progress_callback, b_idx, b_count, res_max_streams,
                                   res_success, res_error>>
       ELSE /\ b_pc' = "finish"
            /\ UNCHANGED <<qvars, runvars, b_cfg, progress_callback, b_idx, b_count, last_passing, low, high,
                           test_results, events, res_max_streams, res_success, res_error>>

\* result.max_streams = last_passing; result.success = true; return result
RunFinish ==
    /\ b_pc = "finish"
    /\ res_max_streams' = last_passing
    /\ res_success' = TRUE
    /\ b_pc' = "done"
    /\ UNCHANGED <<qvars, runvars, b_cfg, progress_callback, b_idx, b_count, last_passing, low, high, test_results, events,
                   res_error>>

NextBench ==
    \/ RunCandidate
    \/ RunLoopEnd
    \/ RunBinaryProbe
    \/ RunFinish

(***************************************************************************)
(* One run: runSingleTest with its readers, workers and harness            *)
(***************************************************************************)
AllStreams == 0..(MaxStreams - 1)
Streams == 0..(stream_count - 1)

\* runSingleTest: bool use_pool = (stream_count >= cpu_cores)
use_pool == stream_count >= cpu_cores
\* (mutant) the pool is made with one worker for every two streams
worker_count_Halved == (stream_count + 1) \div 2
\* runSingleTestPool: worker_count = stream_count, reader_count = cpu_cores
worker_count == stream_count
\* a run that is given time and packets for more than one frame: one
\* stream, or a pool whose workers own several streams
LongRun == stream_count = 1 \/ worker_count_ < stream_count
\* (mutant) the streams are dealt out in blocks of worker_count_
my_streams_Blocks(w) == {i \in Streams : i \div worker_count_ = w}
\* streams worker w owns: for (i = worker_id; i < stream_count_; i += worker_count_)
my_streams(w) == {i \in Streams : i % worker_count_ = w}
\* the k-th stream of worker w, from 1
my_stream(w, k) == w + (k - 1) * worker_count_
\* if (my_streams.size() == 1) { workerLoopSingle(...); return; }, else the scan
LoopEntry(w) == IF Cardinality(my_streams(w)) = 1 THEN "top" ELSE "scan"
reader_count == cpu_cores
\* DecoderPool::DecoderPool: 1:1 reader threads if reader_count >= stream_count
PooledReaders == use_pool /\ reader_count < stream_count
ReaderThreads == 0..(reader_count - 1)
\* reader_cv_.notify_one(), the space callback of every queue of the pool: one
\* of the threads blocked in reader_cv_.wait_for, if there is one, is unblocked
notify_one ==
    IF \E r \in ReaderThreads : rp_pc[r] = "wait"
    THEN \E r \in ReaderThreads :
            rp_pc[r] = "wait" /\ rp_pc' = [rp_pc EXCEPT ![r] = "woken"]
    ELSE UNCHANGED rp_pc

\* std::barrier start_barrier(stream_count + 1)
BarrierOpen == barrier_arrived >= (IF use_pool THEN worker_count_ ELSE stream_count) + 1

NoMessage == <<>>
\* a time_point that was never assigned: the epoch, before every Clock::now()
NotSeeded == -1
\* Clock::time_point::max()
TimeMax == 1000
Message(prefix, id, detail) == <<prefix, id, detail>>

\* the measurements a single test can end with: frames per stream, seconds,
\* cpu percent
FrameCounts == {2937, 2940, 3000}
ElapsedValues == {0, 100}
CpuValues == {84, 85, 86}

\* a single test before it is set up; measured says whether its measurements
\* are drawn (TRUE) or left at one value
InitSingle(measured) ==
    /\ s_pc = "select"
    /\ s_mode = "none"
    /\ decoder_threads = 0
    /\ s_worker_count = 0
    /\ s_reader_count = 0
    /\ target_fps = 30
    /\ cpu_threshold = 85
    /\ elapsed \in (IF measured THEN ElapsedValues ELSE {0})
    /\ per_stream_frames \in
          (IF measured THEN [1..stream_count -> FrameCounts] ELSE {<<>>})
    /\ cpu_usage \in (IF measured THEN CpuValues ELSE {0})
    /\ min_fps = <<0, 1>>
    /\ fps_passed = FALSE
    /\ cpu_passed = FALSE
    /\ passed = FALSE

\* the configuration of a run
\* reader->init(error) and decoder->initFromParams(..., error, ...) of a
\* stream: both succeed, the first fails, or the second fails
InitResults == {"ok", "reader", "decoder"}
\* the members of a StreamContext that are set
ContextParts == {"queue", "reader", "decoder"}

InitRunConfig(counts, cores, single_cap, durations, delays, workers) ==
    /\ stream_count \in counts
    /\ cpu_cores \in cores
    /\ is_live_stream \in BOOLEAN
    /\ worker_count_ \in (IF use_pool THEN workers ELSE {worker_count})
    /\ read_cap = IF LongRun THEN single_cap ELSE MaxReadsRun
    /\ measurement_duration \in (IF stream_count = 1 THEN durations ELSE {0})
    /\ d_delay \in (IF stream_count = 1 THEN delays ELSE {MaxBuffered})
    /\ init_fails \in {f \in [AllStreams -> InitResults] :
                          \A s \in AllStreams :
                             f[s] # "ok" => use_pool /\ Streams \subseteq AllStreams
                                             /\ s \in Streams}

\* the harness and the threads before the pool or the threads are made
InitRunStart ==
    /\ h_pc = "create"
    /\ streams_ = [s \in AllStreams |-> {}]
    /\ barrier_arrived = 0
    /\ r_pc = [s \in AllStreams |-> "none"]
    /\ w_pc = [s \in AllStreams |-> "none"]
    /\ init_done = FALSE
    /\ arrivals = [s \in AllStreams |-> 0]
    /\ start_time_ = NotSeeded
    /\ next_frame_time = [s \in AllStreams |-> NotSeeded]
    /\ t0 = [s \in AllStreams |-> NotSeeded]

\* the pool after worker 0 seeded the streams: the barrier is passed, the
\* readers run, nothing is read yet, and worker w is at its loop
InitRunSeeded ==
    /\ h_pc = "measure"
    /\ init_fails = [s \in AllStreams |-> "ok"]
    /\ streams_ = [s \in AllStreams |-> IF s \in Streams THEN ContextParts ELSE {}]
    /\ barrier_arrived = worker_count_ + 1
    /\ r_pc = [s \in AllStreams |-> IF s \in Streams THEN "loop" ELSE "none"]
    /\ w_pc = [w \in AllStreams |-> IF w < worker_count_ THEN LoopEntry(w) ELSE "none"]
    /\ init_done = TRUE
    /\ arrivals = [w \in AllStreams |-> IF w < worker_count_ THEN 1 ELSE 0]
    /\ start_time_ = 0
    /\ next_frame_time = [s \in AllStreams |-> IF s \in Streams THEN 0 ELSE NotSeeded]
    /\ t0 = [s \in AllStreams |-> IF s \in Streams THEN 0 ELSE NotSeeded]

\* the rest of the run's state, as it is made
InitRunRest ==
    /\ stop_flag = FALSE
    /\ init_error = FALSE
    /\ init_error_message = NoMessage
    /\ sr_has_error = FALSE
    /\ sr_error = NoMessage
    /\ h_start = 0
    /\ h_elapsed = 0
    /\ queue = [s \in AllStreams |-> NewQueue]
    /\ r_pos = [s \in AllStreams |-> 0]
    /\ r_pass = [s \in AllStreams |-> 1]
    /\ r_seq = [s \in AllStreams |-> 0]
    /\ r_has_error = [s \in AllStreams |-> FALSE]
    /\ r_error = [s \in AllStreams |-> ""]
    /\ total_frames = [s \in AllStreams |-> 0]
    /\ frames_decoded = [s \in AllStreams |-> 0]
    /\ has_error = [s \in AllStreams |-> FALSE]
    /\ error_message = [s \in AllStreams |-> ""]
    /\ finished = [s \in AllStreams |-> FALSE]
    /\ d_buf = [s \in AllStreams |-> 0]
    /\ d_last = [s \in AllStreams |-> "none"]
    /\ d_pass = [s \in AllStreams |-> 0]
    /\ d_flushed = [s \in AllStreams |-> FALSE]
    /\ last_seq = [s \in AllStreams |-> 0]
    /\ rp_pc = [r \in 0..(MaxCores - 1) |-> "none"]
    /\ rp_idx = [r \in 0..(MaxCores - 1) |-> 0]
    /\ any_active = [r \in 0..(MaxCores - 1) |-> FALSE]
    /\ any_did_work = [r \in 0..(MaxCores - 1) |-> FALSE]
    /\ clock = 0
    /\ lag_count = [s \in AllStreams |-> 0]
    /\ max_lag_ms = [s \in AllStreams |-> 0]
    /\ scan_idx = [w \in AllStreams |-> 1]
    /\ scan_now = [w \in AllStreams |-> NotSeeded]
    /\ earliest_next = [w \in AllStreams |-> TimeMax]
    /\ scan_any_active = [w \in AllStreams |-> FALSE]
    /\ any_starved = [w \in AllStreams |-> FALSE]

InitRun(counts, cores, single_cap, durations, delays, workers) ==
    /\ InitRunConfig(counts, cores, single_cap, durations, delays, workers)
    /\ InitRunStart /\ InitRunRest

\* no run: the state of the run's variables while another component is checked
\* a BenchmarkRunner made for a file that was parsed and analysed
InitRunner == m_pc = "run" /\ video_path = <<"", "clip.mp4">>

InitNoRun ==
    /\ InitRun({1}, {1}, MaxReads, {0}, {MaxBuffered}, {worker_count})
    /\ is_live_stream = FALSE /\ InitSingle(FALSE)
    /\ InitRunner

(***************************************************************************)
(* PacketReader::run, the dedicated reader thread of stream s              *)
(***************************************************************************)
\* av_read_frame calls made so far: every pass before this one read SrcLen
\* packets and one EOF
ReadsOf(s) == (r_pass[s] - 1) * (SrcLen + 1) + r_pos[s]

\* the packet held in packet_ after a read of a video packet
packet_(s) == [seq |-> r_seq[s], pass |-> r_pass[s]]

\* what av_read_frame and the stream_index test can give at this position
ReadOutcomes(s) ==
    IF r_pos[s] = SrcLen THEN {"eof", "error"} ELSE {"video", "other", "error"}

\* while (!stop_flag_) { ret = av_read_frame(...); ... } up to the push
ReaderRead(s) ==
    /\ r_pc[s] = "loop"
    /\ IF stop_flag
       THEN /\ r_pc' = [r_pc EXCEPT ![s] = "exit"]
            /\ UNCHANGED <<r_pos, r_pass, r_seq, r_has_error, r_error>>
       ELSE /\ ReadsOf(s) < read_cap
            /\ \E ret \in ReadOutcomes(s) :
                 CASE ret = "error" ->
                        /\ r_error' = [r_error EXCEPT ![s] = "Read error"]
                        /\ r_has_error' = [r_has_error EXCEPT ![s] = TRUE]
                        /\ r_pc' = [r_pc EXCEPT ![s] = "exit"]
                        /\ UNCHANGED <<r_pos, r_pass, r_seq>>
                   [] ret = "eof" /\ is_live_stream ->
                        /\ r_error' = [r_error EXCEPT ![s] = "Stream ended"]
                        /\ r_has_error' = [r_has_error EXCEPT ![s] = TRUE]
                        /\ r_pc' = [r_pc EXCEPT ![s] = "exit"]
                        /\ UNCHANGED <<r_pos, r_pass, r_seq>>
                   [] ret = "eof" /\ ~is_live_stream ->
                        \* avformat_seek_file to the start, then the flush marker
                        /\ r_pos' = [r_pos EXCEPT ![s] = 0]
                        /\ r_pass' = [r_pass EXCEPT ![s] = @ + 1]
                        /\ r_pc' = [r_pc EXCEPT ![s] = "flushmark"]
                        /\ UNCHANGED <<r_seq, r_has_error, r_error>>
                   [] ret = "video" ->
                        /\ r_pos' = [r_pos EXCEPT ![s] = @ + 1]
                        /\ r_seq' = [r_seq EXCEPT ![s] = @ + 1]
                        /\ r_pc' = [r_pc EXCEPT ![s] = "push"]
                        /\ UNCHANGED <<r_pass, r_has_error, r_error>>
                   [] ret = "other" ->
                        /\ r_pos' = [r_pos EXCEPT ![s] = @ + 1]
                        /\ UNCHANGED <<r_pc, r_pass, r_seq, r_has_error, r_error>>
    /\ UNCHANGED <<qvars, bvars, msvars, cfgvars, svars, pvars, hvars, queue, wvars, dvars, rpvars>>

\* queue_.pushFlushMarker(100ms); continue;  (the result is not looked at)
ReaderPushFlushMarker(s) ==
    /\ r_pc[s] = "flushmark"
    /\ queue' = [queue EXCEPT ![s] = pushFlushMarker(@, RunQueueCap)]
    /\ r_pc' = [r_pc EXCEPT ![s] = "loop"]
    /\ UNCHANGED <<r_pos, r_pass, r_seq, r_has_error, r_error>>
    /\ UNCHANGED <<qvars, bvars, msvars, cfgvars, svars, pvars, hvars, wvars, dvars, rpvars>>

\* if (!queue_.push(packet_, 100ms)) { unref; if (stop_flag_) break; continue; }
\* av_packet_unref(packet_): either way the next iteration reads a new packet
ReaderPush(s) ==
    /\ r_pc[s] = "push"
    /\ queue' = [queue EXCEPT ![s] = push(@, RunQueueCap, packet_(s), TRUE)]
    /\ r_pc' = [r_pc EXCEPT ![s] =
                  IF ~pushReturns(queue[s], RunQueueCap, TRUE) /\ stop_flag
                  THEN "exit" ELSE "loop"]
    /\ UNCHANGED <<r_pos, r_pass, r_seq, r_has_error, r_error>>
    /\ UNCHANGED <<qvars, bvars, msvars, cfgvars, svars, pvars, hvars, wvars, dvars, rpvars>>

\* (mutant) the reader leaves run() without signalling EOF
ReaderExit_NoEof(s) ==
    /\ r_pc[s] = "exit"
    /\ r_pc' = [r_pc EXCEPT ![s] = "done"]
    /\ UNCHANGED <<r_pos, r_pass, r_seq, r_has_error, r_error>>
    /\ UNCHANGED <<qvars, bvars, msvars, cfgvars, svars, pvars, hvars, queue, wvars, dvars, rpvars>>

\* queue_.signalEof(); and run() returns
ReaderExit(s) ==
    /\ r_pc[s] = "exit"
    /\ queue' = [queue EXCEPT ![s] = signalEof(@)]
    /\ r_pc' = [r_pc EXCEPT ![s] = "done"]
    /\ UNCHANGED <<r_pos, r_pass, r_seq, r_has_error, r_error>>
    /\ UNCHANGED <<qvars, bvars, msvars, cfgvars, svars, pvars, hvars, wvars, dvars, rpvars>>

ReaderNext(s) ==
    \/ ReaderRead(s)
    \/ ReaderPushFlushMarker(s)
    \/ ReaderPush(s)
    \/ ReaderExit(s)

(***************************************************************************)
(* VideoDecoder as its callers see it                                      *)
(***************************************************************************)
\* decodeFromPacket(packet): a frame (success), no frame yet (EAGAIN, or EOF
\* for a null packet), or an error message
DecodeOutcomes(s, packet) ==
    {"error"}
      \cup (IF packet = nullptr
            THEN {"noframe"} \cup (IF d_buf[s] > 0 THEN {"frame"} ELSE {})
            ELSE {"frame"} \cup (IF d_buf[s] < d_delay THEN {"noframe"} ELSE {}))

\* the decoder after decodeFromPacket(packet) gave outcome
decodeFromPacket(s, packet, outcome) ==
    /\ d_last' = [d_last EXCEPT ![s] = IF packet = nullptr THEN "nullptr" ELSE "packet"]
    /\ d_pass' = [d_pass EXCEPT ![s] = IF packet = nullptr THEN @ ELSE packet.pass]
    /\ d_flushed' = [d_flushed EXCEPT ![s] = IF packet = nullptr THEN @ ELSE FALSE]
    /\ d_buf' = [d_buf EXCEPT ![s] =
                   IF packet = nullptr
                   THEN (IF outcome = "frame" THEN @ - 1 ELSE @)
                   ELSE (IF outcome = "noframe" THEN @ + 1 ELSE @)]

\* flushBuffers(): the reordering state is dropped
flushBuffers(s) ==
    /\ d_last' = [d_last EXCEPT ![s] = "flushBuffers"]
    /\ d_flushed' = [d_flushed EXCEPT ![s] = TRUE]
    /\ d_buf' = [d_buf EXCEPT ![s] = 0]
    /\ UNCHANGED d_pass

\* the greater of two numbers (std::max, and the if that keeps max_lag_ms)
Max(a, b) == IF a >= b THEN a ELSE b

\* (mutant) a frame that is early is not waited for
Pace_NoSleep(s) ==
    LET due == next_frame_time[s] + FrameInterval
        now == clock
    IN  /\ IF now > due + lag_tolerance
           THEN /\ lag_count' = [lag_count EXCEPT ![s] = @ + 1]
                /\ max_lag_ms' = [max_lag_ms EXCEPT ![s] = Max(@, now - due)]
                /\ next_frame_time' = [next_frame_time EXCEPT ![s] = now]
           ELSE /\ next_frame_time' = [next_frame_time EXCEPT ![s] = due]
                /\ UNCHANGED <<lag_count, max_lag_ms>>
        /\ UNCHANGED <<clock, start_time_, t0>>

\* (mutant) an on-time frame schedules the next one from the start time
Pace_Restart(s) ==
    LET due == next_frame_time[s] + FrameInterval
        now == clock
    IN  /\ IF now > due + lag_tolerance
           THEN /\ lag_count' = [lag_count EXCEPT ![s] = @ + 1]
                /\ max_lag_ms' = [max_lag_ms EXCEPT ![s] = Max(@, now - due)]
                /\ next_frame_time' = [next_frame_time EXCEPT ![s] = now]
                /\ UNCHANGED clock
           ELSE /\ next_frame_time' = [next_frame_time EXCEPT ![s] = t0[s] + FrameInterval]
                /\ clock' = Max(now, t0[s] + FrameInterval)
                /\ UNCHANGED <<lag_count, max_lag_ms>>
        /\ UNCHANGED <<start_time_, t0>>

\* (mutant) a late frame is counted and the schedule is kept
Pace_KeepsDebt(s) ==
    LET due == next_frame_time[s] + FrameInterval
        now == clock
    IN  /\ IF now > due + lag_tolerance
           THEN /\ lag_count' = [lag_count EXCEPT ![s] = @ + 1]
                /\ max_lag_ms' = [max_lag_ms EXCEPT ![s] = Max(@, now - due)]
                /\ next_frame_time' = [next_frame_time EXCEPT ![s] = due]
                /\ UNCHANGED clock
           ELSE /\ next_frame_time' = [next_frame_time EXCEPT ![s] = due]
                /\ clock' = Max(now, due)
                /\ UNCHANGED <<lag_count, max_lag_ms>>
        /\ UNCHANGED <<start_time_, t0>>

\* the pacing of one decoded frame: next_frame_time += frame_interval;
\* now = Clock::now(); later than the tolerance: the lag is counted and the
\* schedule restarts at now; early: sleep_until(next_frame_time), which
\* returns when the clock reads that time
Pace(s) ==
    LET due == next_frame_time[s] + FrameInterval
        now == clock
    IN  /\ IF now > due + lag_tolerance
           THEN /\ lag_count' = [lag_count EXCEPT ![s] = @ + 1]
                /\ max_lag_ms' = [max_lag_ms EXCEPT ![s] = Max(@, now - due)]
                /\ next_frame_time' = [next_frame_time EXCEPT ![s] = now]
                /\ UNCHANGED clock
           ELSE /\ next_frame_time' = [next_frame_time EXCEPT ![s] = due]
                /\ clock' = Max(now, due)
                /\ UNCHANGED <<lag_count, max_lag_ms>>
        /\ UNCHANGED <<start_time_, t0>>

\* (mutant) a packet without a frame advances the schedule as a frame does
AfterDecode_PacesAlways(s, outcome, next) ==
    CASE outcome = "error" ->
           /\ error_message' = [error_message EXCEPT ![s] = "Decode error"]
           /\ has_error' = [has_error EXCEPT ![s] = TRUE]
           /\ w_pc' = [w_pc EXCEPT ![s] = next]
           /\ UNCHANGED <<total_frames, frames_decoded, pvars>>
      [] outcome = "noframe" ->
           /\ w_pc' = [w_pc EXCEPT ![s] = "top"]
           /\ Pace(s)
           /\ UNCHANGED <<total_frames, frames_decoded, has_error, error_message>>
      [] outcome = "frame" ->
           /\ total_frames' = [total_frames EXCEPT ![s] = @ + 1]
           /\ frames_decoded' = [frames_decoded EXCEPT ![s] =
                  IF (total_frames[s] + 1) % kBatchSize = 0
                  THEN total_frames[s] + 1 ELSE @]
           /\ Pace(s)
           /\ w_pc' = [w_pc EXCEPT ![s] = "top"]
           /\ UNCHANGED <<has_error, error_message>>

\* what the worker loops do with the result of decodeFromPacket; next is the
\* place the loop goes to after an error
AfterDecode(s, outcome, next) ==
    CASE outcome = "error" ->
           /\ error_message' = [error_message EXCEPT ![s] = "Decode error"]
           /\ has_error' = [has_error EXCEPT ![s] = TRUE]
           /\ w_pc' = [w_pc EXCEPT ![s] = next]
           /\ UNCHANGED <<total_frames, frames_decoded, pvars>>
      [] outcome = "noframe" ->
           /\ w_pc' = [w_pc EXCEPT ![s] = "top"]
           /\ UNCHANGED <<total_frames, frames_decoded, has_error, error_message,
                          pvars>>
      [] outcome = "frame" ->
           /\ total_frames' = [total_frames EXCEPT ![s] = @ + 1]
           /\ frames_decoded' = [frames_decoded EXCEPT ![s] =
                  IF (total_frames[s] + 1) % kBatchSize = 0
                  THEN total_frames[s] + 1 ELSE @]
           /\ Pace(s)
           /\ w_pc' = [w_pc EXCEPT ![s] = "top"]
           /\ UNCHANGED <<has_error, error_message>>

(***************************************************************************)
(* DecoderThread::run, the worker of stream w in direct mode               *)
(***************************************************************************)
\* decoder.open, reader.init, the reader thread, start_barrier_.arrive_and_wait
DT_Start(w) ==
    /\ w_pc[w] = "open"
    /\ barrier_arrived' = barrier_arrived + 1
    /\ arrivals' = [arrivals EXCEPT ![w] = @ + 1]
    /\ \E ok \in BOOLEAN :
         IF ok
         THEN /\ r_pc' = [r_pc EXCEPT ![w] = "loop"]
              /\ w_pc' = [w_pc EXCEPT ![w] = "wait"]
              /\ UNCHANGED <<has_error, error_message>>
         ELSE /\ error_message' = [error_message EXCEPT ![w] = "Init failed"]
              /\ has_error' = [has_error EXCEPT ![w] = TRUE]
              /\ w_pc' = [w_pc EXCEPT ![w] = "wait_err"]
              /\ UNCHANGED r_pc
    /\ UNCHANGED <<h_pc, stop_flag, init_error, init_error_message, h_start, h_elapsed,
                   sr_has_error, sr_error>>
    /\ UNCHANGED <<r_pos, r_pass, r_seq, r_has_error, r_error>>
    /\ UNCHANGED <<total_frames, frames_decoded, finished, init_done>>
    /\ UNCHANGED <<qvars, bvars, msvars, cfgvars, svars, pvars, queue, dvars, rpvars>>

\* arrive_and_wait returns: the thread returns (init error) or starts its loop
DT_PassBarrier(w) ==
    /\ w_pc[w] \in {"wait", "wait_err"}
    /\ BarrierOpen
    /\ w_pc' = [w_pc EXCEPT ![w] = IF @ = "wait_err" THEN "done" ELSE "top"]
    /\ IF w_pc[w] = "wait"
       THEN \* auto start_time = Clock::now(); auto next_frame_time = start_time;
            /\ next_frame_time' = [next_frame_time EXCEPT ![w] = clock]
            /\ t0' = [t0 EXCEPT ![w] = clock]
       ELSE UNCHANGED <<next_frame_time, t0>>
    /\ UNCHANGED <<clock, start_time_, lag_count, max_lag_ms>>
    /\ UNCHANGED <<total_frames, frames_decoded, has_error, error_message, finished,
                   init_done, arrivals>>
    /\ UNCHANGED <<qvars, bvars, msvars, cfgvars, svars, hvars, queue, rdvars, dvars, rpvars>>

\* if ((total_frames % kBatchSize) == 0) { if (stop_flag_) break; }
DT_Top(w) ==
    /\ w_pc[w] = "top"
    /\ w_pc' = [w_pc EXCEPT ![w] =
                  IF total_frames[w] % kBatchSize = 0 /\ stop_flag
                  THEN "flushdec" ELSE "pop"]
    /\ UNCHANGED <<total_frames, frames_decoded, has_error, error_message, finished,
                   init_done, arrivals>>
    /\ UNCHANGED <<qvars, bvars, msvars, cfgvars, svars, pvars, hvars, queue, rdvars, dvars, rpvars>>

\* queue.pop(100ms), then decoder.decodeFromPacket(packet) on whatever came
DT_Pop(w) ==
    /\ w_pc[w] = "pop"
    /\ IF popDidPop(queue[w])
       THEN LET packet == popPacket(queue[w]) IN
            /\ queue' = [queue EXCEPT ![w] = pop(@)]
            /\ last_seq' = [last_seq EXCEPT ![w] =
                              IF packet = nullptr THEN @ ELSE packet.seq]
            /\ \E outcome \in DecodeOutcomes(w, packet) :
                 /\ decodeFromPacket(w, packet, outcome)
                 /\ AfterDecode(w, outcome, "flushdec")
       ELSE /\ w_pc' = [w_pc EXCEPT ![w] = "chkeof"]
            /\ UNCHANGED <<queue, dvars, total_frames, frames_decoded, has_error,
                           error_message, pvars>>
    /\ UNCHANGED <<finished, init_done, arrivals>>
    /\ UNCHANGED <<qvars, bvars, msvars, cfgvars, svars, hvars, rdvars, rpvars>>

\* if (queue.isEof()) { if (reader.hasError()) {...} break; } continue;
DT_CheckEof(w) ==
    /\ w_pc[w] = "chkeof"
    /\ IF isEof(queue[w])
       THEN /\ w_pc' = [w_pc EXCEPT ![w] = "flushdec"]
            /\ IF r_has_error[w]
               THEN /\ error_message' = [error_message EXCEPT ![w] = r_error[w]]
                    /\ has_error' = [has_error EXCEPT ![w] = TRUE]
               ELSE UNCHANGED <<has_error, error_message>>
       ELSE /\ w_pc' = [w_pc EXCEPT ![w] = "top"]
            /\ UNCHANGED <<has_error, error_message>>
    /\ UNCHANGED <<total_frames, frames_decoded, finished, init_done, arrivals>>
    /\ UNCHANGED <<qvars, bvars, msvars, cfgvars, svars, pvars, hvars, queue, rdvars, dvars, rpvars>>

\* while (decoder.flushDecoder().success) total_frames++; frames_decoded_.store
DT_Flush(w) ==
    /\ w_pc[w] = "flushdec"
    /\ total_frames' = [total_frames EXCEPT ![w] = @ + d_buf[w]]
    /\ frames_decoded' = [frames_decoded EXCEPT ![w] = total_frames[w] + d_buf[w]]
    /\ d_buf' = [d_buf EXCEPT ![w] = 0]
    /\ w_pc' = [w_pc EXCEPT ![w] = "joinreader"]
    /\ UNCHANGED <<d_last, d_pass, d_flushed, last_seq>>
    /\ UNCHANGED <<has_error, error_message, finished, init_done, arrivals>>
    /\ UNCHANGED <<qvars, bvars, msvars, cfgvars, svars, pvars, hvars, queue, rdvars, rpvars>>

\* run() returns: the jthread of the reader is joined on the way out
DT_Return(w) ==
    /\ w_pc[w] = "joinreader"
    /\ r_pc[w] = "done"
    /\ w_pc' = [w_pc EXCEPT ![w] = "done"]
    /\ UNCHANGED <<total_frames, frames_decoded, has_error, error_message, finished,
                   init_done, arrivals>>
    /\ UNCHANGED <<qvars, bvars, msvars, cfgvars, svars, pvars, hvars, queue, rdvars, dvars, rpvars>>

DecoderThreadNext(w) ==
    /\ ~use_pool
    /\ \/ DT_Start(w)
       \/ DT_PassBarrier(w)
       \/ DT_Top(w)
       \/ DT_Pop(w)
       \/ DT_CheckEof(w)
       \/ DT_Flush(w)
       \/ DT_Return(w)

(***************************************************************************)
(* DecoderPool::workerLoop and workerLoopSingle, worker w of the pool      *)
(***************************************************************************)

\* if (init_error_) { arrive_and_wait; return; }  start_barrier_.arrive_and_wait();
WL_Start(w) ==
    /\ w_pc[w] = "start"
    /\ barrier_arrived' = barrier_arrived + 1
    /\ arrivals' = [arrivals EXCEPT ![w] = @ + 1]
    /\ w_pc' = [w_pc EXCEPT ![w] = IF init_error THEN "wait_err" ELSE "wait"]
    /\ UNCHANGED <<h_pc, stop_flag, init_error, init_error_message, h_start, h_elapsed,
                   sr_has_error, sr_error>>
    /\ UNCHANGED <<total_frames, frames_decoded, has_error, error_message, finished,
                   init_done>>
    /\ UNCHANGED <<qvars, bvars, msvars, cfgvars, svars, pvars, queue, rdvars, dvars, rpvars>>

\* after the barrier: worker 0 seeds the shared start time and publishes
\* init_done_, the others go on to wait for it
WL_PassBarrier(w) ==
    /\ w_pc[w] \in {"wait", "wait_err"}
    /\ BarrierOpen
    /\ IF w_pc[w] = "wait_err"
       THEN /\ w_pc' = [w_pc EXCEPT ![w] = "done"]
            /\ UNCHANGED <<init_done, start_time_, next_frame_time, t0>>
       ELSE IF w = 0
            THEN \* start_time_ = Clock::now(); every ctx->next_frame_time =
                 \* start_time_; init_done_.store(true, release)
                 /\ start_time_' = clock
                 /\ next_frame_time' = [s \in AllStreams |->
                        IF s \in Streams THEN clock ELSE next_frame_time[s]]
                 /\ t0' = [s \in AllStreams |-> IF s \in Streams THEN clock ELSE t0[s]]
                 /\ init_done' = TRUE
                 /\ w_pc' = [w_pc EXCEPT ![w] = LoopEntry(w)]
            ELSE /\ w_pc' = [w_pc EXCEPT ![w] = "spin"]
                 /\ UNCHANGED <<init_done, start_time_, next_frame_time, t0>>
    /\ UNCHANGED <<clock, lag_count, max_lag_ms>>
    /\ UNCHANGED <<total_frames, frames_decoded, has_error, error_message, finished,
                   arrivals>>
    /\ UNCHANGED <<qvars, bvars, msvars, cfgvars, svars, hvars, queue, rdvars, dvars, rpvars>>

\* while (!init_done_.load(acquire)) yield;  then workerLoopSingle(its stream)
WL_Spin(w) ==
    /\ w_pc[w] = "spin"
    /\ init_done
    /\ w_pc' = [w_pc EXCEPT ![w] = LoopEntry(w)]
    /\ UNCHANGED <<total_frames, frames_decoded, has_error, error_message, finished,
                   init_done, arrivals>>
    /\ UNCHANGED <<qvars, bvars, msvars, cfgvars, svars, pvars, hvars, queue, rdvars, dvars, rpvars>>

\* (mutant) the single-stream loop never looks at the stop flag
WL_Top_IgnoresStop(w) ==
    /\ w_pc[w] = "top"
    /\ w_pc' = [w_pc EXCEPT ![w] = "pop"]
    /\ UNCHANGED <<total_frames, frames_decoded, has_error, error_message, finished,
                   init_done, arrivals>>
    /\ UNCHANGED <<qvars, bvars, msvars, cfgvars, svars, pvars, hvars, queue, rdvars, dvars, rpvars>>

\* workerLoopSingle: if ((ctx.total_frames % kBatchSize) == 0) { if (stop) break; }
WL_Top(w) ==
    /\ w_pc[w] = "top"
    /\ w_pc' = [w_pc EXCEPT ![w] =
                  IF total_frames[w] % kBatchSize = 0 /\ stop_flag
                  THEN "done" ELSE "pop"]
    /\ UNCHANGED <<total_frames, frames_decoded, has_error, error_message, finished,
                   init_done, arrivals>>
    /\ UNCHANGED <<qvars, bvars, msvars, cfgvars, svars, pvars, hvars, queue, rdvars, dvars, rpvars>>

\* workerLoopSingle: ctx.queue->pop(100ms); a null packet is the flush marker
WL_Pop(w) ==
    /\ w_pc[w] = "pop"
    /\ IF popDidPop(queue[w])
       THEN LET packet == popPacket(queue[w]) IN
            /\ queue' = [queue EXCEPT ![w] = pop(@)]
            /\ IF packet = nullptr
               THEN /\ flushBuffers(w)
                    /\ w_pc' = [w_pc EXCEPT ![w] = "top"]
                    /\ UNCHANGED <<last_seq, total_frames, frames_decoded, has_error,
                                   error_message, pvars>>
               ELSE /\ last_seq' = [last_seq EXCEPT ![w] = packet.seq]
                    /\ \E outcome \in DecodeOutcomes(w, packet) :
                         /\ decodeFromPacket(w, packet, outcome)
                         /\ AfterDecode(w, outcome, "done")
            /\ notify_one
       ELSE /\ w_pc' = [w_pc EXCEPT ![w] = "chkeof"]
            /\ UNCHANGED <<queue, dvars, total_frames, frames_decoded, has_error,
                           error_message, pvars, rp_pc>>
    /\ UNCHANGED <<finished, init_done, arrivals>>
    /\ UNCHANGED <<rp_idx, any_active, any_did_work>>
    /\ UNCHANGED <<qvars, bvars, msvars, cfgvars, svars, hvars, rdvars>>

\* (mutant) the single-stream loop goes on after the queue reported EOF
WL_CheckEof_NoBreak(w) ==
    /\ w_pc[w] = "chkeof"
    /\ w_pc' = [w_pc EXCEPT ![w] = "top"]
    /\ UNCHANGED <<has_error, error_message, finished>>
    /\ UNCHANGED <<total_frames, frames_decoded, init_done, arrivals>>
    /\ UNCHANGED <<qvars, bvars, msvars, cfgvars, svars, pvars, hvars, queue, rdvars, dvars, rpvars>>

\* workerLoopSingle: if (ctx.queue->isEof()) { reader error; finished; break; }
WL_CheckEof(w) ==
    /\ w_pc[w] = "chkeof"
    /\ IF isEof(queue[w])
       THEN /\ w_pc' = [w_pc EXCEPT ![w] = "done"]
            /\ finished' = [finished EXCEPT ![w] = TRUE]
            /\ IF r_has_error[w]
               THEN /\ error_message' = [error_message EXCEPT ![w] = r_error[w]]
                    /\ has_error' = [has_error EXCEPT ![w] = TRUE]
               ELSE UNCHANGED <<has_error, error_message>>
       ELSE /\ w_pc' = [w_pc EXCEPT ![w] = "top"]
            /\ UNCHANGED <<has_error, error_message, finished>>
    /\ UNCHANGED <<total_frames, frames_decoded, init_done, arrivals>>
    /\ UNCHANGED <<qvars, bvars, msvars, cfgvars, svars, pvars, hvars, queue, rdvars, dvars, rpvars>>

WorkerLoopNext(w) ==
    /\ use_pool
    /\ \/ WL_Start(w)
       \/ WL_PassBarrier(w)
       \/ WL_Spin(w)
       \/ WL_Top(w)
       \/ WL_Pop(w)
       \/ WL_CheckEof(w)

(***************************************************************************)
(* DecoderPool::workerLoop, the multi-stream path of a worker that owns    *)
(* several streams, and drainUntilFrame                                    *)
(***************************************************************************)
\* the stream the scan of worker w is at
scan_stream(w) == my_stream(w, scan_idx[w])

\* while (!stop_flag_) { now = Clock::now(); earliest_next = max();
\* any_active = false; any_starved = false; for (int idx : my_streams) ...
MS_Begin(w) ==
    /\ w_pc[w] = "scan"
    /\ IF stop_flag
       THEN /\ w_pc' = [w_pc EXCEPT ![w] = "done"]
            /\ UNCHANGED msvars
       ELSE /\ w_pc' = [w_pc EXCEPT ![w] = "visit"]
            /\ scan_idx' = [scan_idx EXCEPT ![w] = 1]
            /\ scan_now' = [scan_now EXCEPT ![w] = clock]
            /\ earliest_next' = [earliest_next EXCEPT ![w] = TimeMax]
            /\ scan_any_active' = [scan_any_active EXCEPT ![w] = FALSE]
            /\ any_starved' = [any_starved EXCEPT ![w] = FALSE]
    /\ UNCHANGED <<total_frames, frames_decoded, has_error, error_message, finished,
                   init_done, arrivals>>
    /\ UNCHANGED <<qvars, bvars, cfgvars, svars, pvars, hvars, queue, rdvars, dvars, rpvars>>

\* the head of the for body: a finished or errored stream is skipped; a
\* stream that is due goes to drainUntilFrame; one that is not due only
\* counts for earliest_next
MS_Visit(w) ==
    /\ w_pc[w] = "visit"
    /\ scan_idx[w] <= Cardinality(my_streams(w))
    /\ LET s == scan_stream(w) IN
       IF finished[s] \/ has_error[s]
       THEN /\ scan_idx' = [scan_idx EXCEPT ![w] = @ + 1]
            /\ UNCHANGED <<w_pc, earliest_next, scan_any_active>>
       ELSE /\ scan_any_active' = [scan_any_active EXCEPT ![w] = TRUE]
            /\ IF scan_now[w] >= next_frame_time[s]
               THEN /\ w_pc' = [w_pc EXCEPT ![w] = "drain"]
                    /\ UNCHANGED <<scan_idx, earliest_next>>
               ELSE /\ earliest_next' = [earliest_next EXCEPT ![w] =
                          IF next_frame_time[s] < @ THEN next_frame_time[s] ELSE @]
                    /\ scan_idx' = [scan_idx EXCEPT ![w] = @ + 1]
                    /\ UNCHANGED w_pc
    /\ UNCHANGED <<scan_now, any_starved>>
    /\ UNCHANGED <<total_frames, frames_decoded, has_error, error_message, finished,
                   init_done, arrivals>>
    /\ UNCHANGED <<qvars, bvars, cfgvars, svars, pvars, hvars, queue, rdvars, dvars, rpvars>>

\* the pacing of one frame in drainUntilFrame: as in the single-stream loop,
\* without the sleep
Advance(s) ==
    LET due == next_frame_time[s] + FrameInterval
        now == clock
    IN  /\ IF now > due + lag_tolerance
           THEN /\ lag_count' = [lag_count EXCEPT ![s] = @ + 1]
                /\ max_lag_ms' = [max_lag_ms EXCEPT ![s] = Max(@, now - due)]
                /\ next_frame_time' = [next_frame_time EXCEPT ![s] = now]
           ELSE /\ next_frame_time' = [next_frame_time EXCEPT ![s] = due]
                /\ UNCHANGED <<lag_count, max_lag_ms>>
        /\ UNCHANGED <<clock, start_time_, t0>>

\* drainUntilFrame returned got_frame to the for body: any_starved, now =
\* Clock::now(), earliest_next, and on to the next stream
MS_Returned(w, s, got_frame) ==
    /\ any_starved' = [any_starved EXCEPT ![w] =
          @ \/ (~got_frame /\ ~finished'[s] /\ ~has_error'[s])]
    /\ scan_now' = [scan_now EXCEPT ![w] = clock]
    /\ earliest_next' = [earliest_next EXCEPT ![w] =
          IF ~finished'[s] /\ ~has_error'[s] /\ next_frame_time'[s] < @
          THEN next_frame_time'[s] ELSE @]
    /\ scan_idx' = [scan_idx EXCEPT ![w] = @ + 1]
    /\ w_pc' = [w_pc EXCEPT ![w] = "visit"]
    /\ UNCHANGED scan_any_active

\* one turn of the loop of drainUntilFrame(ctx, 1ms) for the stream the scan
\* is at
MS_Drain(w) ==
    /\ w_pc[w] = "drain"
    /\ LET s == scan_stream(w) IN
       IF stop_flag
       THEN /\ UNCHANGED <<queue, dvars, total_frames, frames_decoded, has_error,
                           error_message, finished, pvars, rp_pc>>
            /\ MS_Returned(w, s, FALSE)
       ELSE IF ~popDidPop(queue[s])
       THEN /\ IF isEof(queue[s])
               THEN /\ finished' = [finished EXCEPT ![s] = TRUE]
                    /\ IF r_has_error[s]
                       THEN /\ error_message' = [error_message EXCEPT ![s] = r_error[s]]
                            /\ has_error' = [has_error EXCEPT ![s] = TRUE]
                       ELSE UNCHANGED <<has_error, error_message>>
               ELSE UNCHANGED <<has_error, error_message, finished>>
            /\ UNCHANGED <<queue, dvars, total_frames, frames_decoded, pvars, rp_pc>>
            /\ MS_Returned(w, s, FALSE)
       ELSE LET packet == popPacket(queue[s]) IN
            /\ queue' = [queue EXCEPT ![s] = pop(@)]
            /\ notify_one
            /\ UNCHANGED finished
            /\ IF packet = nullptr
               THEN /\ flushBuffers(s)
                    /\ UNCHANGED <<last_seq, total_frames, frames_decoded, has_error,
                                   error_message, pvars, w_pc, msvars>>
               ELSE /\ last_seq' = [last_seq EXCEPT ![s] = packet.seq]
                    /\ \E outcome \in DecodeOutcomes(s, packet) :
                         /\ decodeFromPacket(s, packet, outcome)
                         /\ CASE outcome = "error" ->
                                   /\ error_message' =
                                        [error_message EXCEPT ![s] = "Decode error"]
                                   /\ has_error' = [has_error EXCEPT ![s] = TRUE]
                                   /\ UNCHANGED <<total_frames, frames_decoded, pvars>>
                                   /\ MS_Returned(w, s, FALSE)
                              [] outcome = "noframe" ->
                                   UNCHANGED <<total_frames, frames_decoded, has_error,
                                               error_message, pvars, w_pc, msvars>>
                              [] outcome = "frame" ->
                                   /\ total_frames' = [total_frames EXCEPT ![s] = @ + 1]
                                   /\ frames_decoded' = [frames_decoded EXCEPT ![s] =
                                          IF (total_frames[s] + 1) % kBatchSize = 0
                                          THEN total_frames[s] + 1 ELSE @]
                                   /\ Advance(s)
                                   /\ UNCHANGED <<has_error, error_message>>
                                   /\ MS_Returned(w, s, TRUE)
    /\ UNCHANGED <<init_done, arrivals>>
    /\ UNCHANGED <<rp_idx, any_active, any_did_work>>
    /\ UNCHANGED <<qvars, bvars, cfgvars, svars, hvars, rdvars>>

\* after the for: if (!any_active) break; now = Clock::now(); a starved pass
\* sleeps 500 us, which is less than one unit of the clock; otherwise
\* sleep_until(earliest_next) if that is more than the tolerance ahead, and
\* sleep_until(time_point::max()) does not return
MS_End(w) ==
    /\ w_pc[w] = "visit"
    /\ scan_idx[w] > Cardinality(my_streams(w))
    /\ IF ~scan_any_active[w]
       THEN /\ w_pc' = [w_pc EXCEPT ![w] = "done"]
            /\ UNCHANGED clock
       ELSE IF any_starved[w] \/ earliest_next[w] <= clock + lag_tolerance
       THEN /\ w_pc' = [w_pc EXCEPT ![w] = "scan"]
            /\ UNCHANGED clock
       ELSE IF earliest_next[w] = TimeMax
       THEN /\ w_pc' = [w_pc EXCEPT ![w] = "asleep"]
            /\ UNCHANGED clock
       ELSE /\ w_pc' = [w_pc EXCEPT ![w] = "scan"]
            /\ clock' = Max(clock, earliest_next[w])
    /\ UNCHANGED <<start_time_, next_frame_time, lag_count, max_lag_ms, t0>>
    /\ UNCHANGED <<total_frames, frames_decoded, has_error, error_message, finished,
                   init_done, arrivals>>
    /\ UNCHANGED <<qvars, bvars, cfgvars, svars, hvars, queue, rdvars, dvars, rpvars,
                   msvars>>

(***************************************************************************)
(* PacketReader::readNextPacket and signalDone, the non-blocking step the  *)
(* reader pool drives (declared by their callers in DecoderPool::readerLoop)*)
(***************************************************************************)
QueueHasSpace(s) == Len(queue[s].items) < RunQueueCap /\ ~queue[s].eof

\* readNextPacket() of the reader of stream s returning result: one of
\* "kPacketQueued", "kQueueFull", "kSkipped", "kDone"
readNextPacket(s, result) ==
    CASE r_pc[s] = "done" ->
           /\ result = "kDone"
           /\ UNCHANGED <<queue, rdvars>>
      [] r_pc[s] \in {"push", "flushmark"} ->
           \* an item is pending from a call that found the queue full
           IF QueueHasSpace(s)
           THEN /\ result = "kPacketQueued"
                /\ queue' = [queue EXCEPT ![s] =
                     IF r_pc[s] = "push" THEN push(@, RunQueueCap, packet_(s), TRUE)
                     ELSE pushFlushMarker(@, RunQueueCap)]
                /\ r_pc' = [r_pc EXCEPT ![s] = "loop"]
                /\ UNCHANGED <<r_pos, r_pass, r_seq, r_has_error, r_error>>
           ELSE /\ result = "kQueueFull"
                /\ UNCHANGED <<queue, rdvars>>
      [] r_pc[s] = "loop" /\ ReadsOf(s) >= read_cap ->
           \* model bound: the source gives nothing more for now
           /\ result = "kQueueFull"
           /\ UNCHANGED <<queue, rdvars>>
      [] r_pc[s] = "loop" /\ ReadsOf(s) < read_cap ->
           \E ret \in ReadOutcomes(s) :
             CASE ret = "error" \/ (ret = "eof" /\ is_live_stream) ->
                    /\ result = "kDone"
                    /\ r_error' = [r_error EXCEPT ![s] =
                         IF ret = "eof" THEN "Stream ended" ELSE "Read error"]
                    /\ r_has_error' = [r_has_error EXCEPT ![s] = TRUE]
                    /\ r_pc' = [r_pc EXCEPT ![s] = "done"]
                    /\ UNCHANGED <<queue, r_pos, r_pass, r_seq>>
               [] ret = "eof" /\ ~is_live_stream ->
                    /\ r_pos' = [r_pos EXCEPT ![s] = 0]
                    /\ r_pass' = [r_pass EXCEPT ![s] = @ + 1]
                    /\ queue' = [queue EXCEPT ![s] = pushFlushMarker(@, RunQueueCap)]
                    /\ r_pc' = [r_pc EXCEPT ![s] =
                         IF QueueHasSpace(s) THEN "loop" ELSE "flushmark"]
                    /\ result = IF QueueHasSpace(s) THEN "kPacketQueued" ELSE "kQueueFull"
                    /\ UNCHANGED <<r_seq, r_has_error, r_error>>
               [] ret = "video" ->
                    /\ r_pos' = [r_pos EXCEPT ![s] = @ + 1]
                    /\ r_seq' = [r_seq EXCEPT ![s] = @ + 1]
                    /\ queue' = [queue EXCEPT ![s] = push(@, RunQueueCap,
                         [seq |-> r_seq[s] + 1, pass |-> r_pass[s]], TRUE)]
                    /\ r_pc' = [r_pc EXCEPT ![s] =
                         IF QueueHasSpace(s) THEN "loop" ELSE "push"]
                    /\ result = IF QueueHasSpace(s) THEN "kPacketQueued" ELSE "kQueueFull"
                    /\ UNCHANGED <<r_pass, r_has_error, r_error>>
               [] ret = "other" ->
                    /\ result = "kSkipped"
                    /\ r_pos' = [r_pos EXCEPT ![s] = @ + 1]
                    /\ UNCHANGED <<queue, r_pc, r_pass, r_seq, r_has_error, r_error>>

ReadResults == {"kPacketQueued", "kQueueFull", "kSkipped", "kDone"}

(***************************************************************************)
(* DecoderPool::readerLoop, reader-pool thread r                           *)
(***************************************************************************)
\* for (i = reader_id; i < stream_count_; i += reader_count_)
my_readers(r) == {i \in Streams : i % reader_count = r}

\* while (!stop_flag_) { any_active = false; any_did_work = false; ...
RL_Check(r) ==
    /\ rp_pc[r] = "check"
    /\ IF stop_flag
       THEN /\ rp_pc' = [rp_pc EXCEPT ![r] = "signal"]
            /\ UNCHANGED <<rp_idx, any_active, any_did_work>>
       ELSE /\ rp_pc' = [rp_pc EXCEPT ![r] = "scan"]
            /\ rp_idx' = [rp_idx EXCEPT ![r] = r]
            /\ any_active' = [any_active EXCEPT ![r] = FALSE]
            /\ any_did_work' = [any_did_work EXCEPT ![r] = FALSE]
    /\ UNCHANGED <<qvars, bvars, msvars, cfgvars, svars, pvars, hvars, queue, rdvars, wvars, dvars>>

\* for (int idx : my_readers) { switch (ctx.reader->readNextPacket()) ... }
RL_Read(r) ==
    /\ rp_pc[r] = "scan"
    /\ rp_idx[r] \in my_readers(r)
    /\ \E result \in ReadResults :
         /\ readNextPacket(rp_idx[r], result)
         /\ any_active' = [any_active EXCEPT ![r] = @ \/ result # "kDone"]
         /\ any_did_work' = [any_did_work EXCEPT ![r] =
              @ \/ result \in {"kPacketQueued", "kSkipped"}]
    /\ rp_idx' = [rp_idx EXCEPT ![r] = @ + reader_count]
    /\ UNCHANGED rp_pc
    /\ UNCHANGED <<qvars, bvars, msvars, cfgvars, svars, pvars, hvars, wvars, dvars>>

\* if (!any_active) break; if (!any_did_work) reader_cv_.wait_for(10ms, stop)
RL_PassEnd(r) ==
    /\ rp_pc[r] = "scan"
    /\ rp_idx[r] \notin my_readers(r)
    /\ rp_pc' = [rp_pc EXCEPT ![r] =
         IF ~any_active[r] THEN "signal"
         ELSE IF ~any_did_work[r] THEN "wait" ELSE "check"]
    /\ UNCHANGED <<rp_idx, any_active, any_did_work>>
    /\ UNCHANGED <<qvars, bvars, msvars, cfgvars, svars, pvars, hvars, queue, rdvars, wvars, dvars>>

\* wait_for(lock, 10ms, pred), unblocked by a notification: the predicate
\* stop_flag_.load() is evaluated; wait_for returns if it holds, and blocks
\* again for the rest of the 10 ms if it does not
RL_Recheck(r) ==
    /\ rp_pc[r] = "woken"
    /\ rp_pc' = [rp_pc EXCEPT ![r] = IF stop_flag THEN "check" ELSE "wait"]
    /\ UNCHANGED <<rp_idx, any_active, any_did_work>>
    /\ UNCHANGED <<qvars, bvars, msvars, cfgvars, svars, pvars, hvars, queue, rdvars, wvars, dvars>>

\* wait_for returns because the 10 ms are over
RL_Wake(r) ==
    /\ rp_pc[r] = "wait"
    /\ rp_pc' = [rp_pc EXCEPT ![r] = "check"]
    /\ UNCHANGED <<rp_idx, any_active, any_did_work>>
    /\ UNCHANGED <<qvars, bvars, msvars, cfgvars, svars, pvars, hvars, queue, rdvars, wvars, dvars>>

\* for (int idx : my_readers) ctx.reader->signalDone();  and the thread ends
RL_Exit(r) ==
    /\ rp_pc[r] = "signal"
    /\ queue' = [s \in AllStreams |->
                   IF s \in my_readers(r) THEN signalEof(queue[s]) ELSE queue[s]]
    /\ r_pc' = [s \in AllStreams |-> IF s \in my_readers(r) THEN "done" ELSE r_pc[s]]
    /\ rp_pc' = [rp_pc EXCEPT ![r] = "done"]
    /\ UNCHANGED <<r_pos, r_pass, r_seq, r_has_error, r_error>>
    /\ UNCHANGED <<rp_idx, any_active, any_did_work>>
    /\ UNCHANGED <<qvars, bvars, msvars, cfgvars, svars, pvars, hvars, wvars, dvars>>

ReaderLoopNext(r) ==
    \/ RL_Check(r)
    \/ RL_Read(r)
    \/ RL_PassEnd(r)
    \/ RL_Wake(r)
    \/ RL_Recheck(r)
    \/ RL_Exit(r)

(***************************************************************************)
(* The harness: runSingleTestDirect and runSingleTestPool                  *)
(***************************************************************************)
\* runSingleTestDirect: threads.push_back(make_unique<DecoderThread>(...)) for
\* every stream; each thread starts in run()
H_CreateDirect ==
    /\ h_pc = "create"
    /\ ~use_pool
    /\ w_pc' = [s \in AllStreams |-> IF s \in Streams THEN "open" ELSE "none"]
    /\ h_pc' = "arrive"
    /\ UNCHANGED <<stop_flag, barrier_arrived, init_error, init_error_message, h_start, h_elapsed,
                   sr_has_error, sr_error>>
    /\ UNCHANGED <<total_frames, frames_decoded, has_error, error_message, finished,
                   init_done, arrivals>>
    /\ UNCHANGED <<qvars, bvars, msvars, cfgvars, svars, pvars, queue, rdvars, dvars, rpvars>>

\* the streams whose reader or decoder cannot be initialised
FailingStreams == {s \in Streams \cap AllStreams : init_fails[s] # "ok"}

\* (mutant) the constructor goes through every stream and keeps the last error
FirstFailing_Last ==
    IF FailingStreams = {} THEN -1
    ELSE CHOOSE s \in FailingStreams : \A u \in FailingStreams : u <= s

\* for (int i = 0; i < stream_count; i++): the stream at which the constructor
\* returns, -1 if it gets through the loop
FirstFailing ==
    IF FailingStreams = {} THEN -1
    ELSE CHOOSE s \in FailingStreams : \A u \in FailingStreams : s <= u

\* the context pushed for stream s when the loop fails at stream failed: the
\* failing stream keeps what was made before the call that failed, the
\* streams after it get make_unique<StreamContext>()
Context(s, failed) ==
    IF failed = -1 \/ s < failed THEN ContextParts
    ELSE IF s = failed
    THEN (IF init_fails[s] = "reader" THEN {"queue", "reader"} ELSE ContextParts)
    ELSE {}

\* DecoderPool::DecoderPool: the contexts are initialised in order; the first
\* reader or decoder that fails to initialise records init_error_ and the
\* constructor returns; otherwise the reader threads and the workers start
H_CreatePool ==
    /\ h_pc = "create"
    /\ use_pool
    /\ LET failed == FirstFailing IN
         /\ streams_' = [s \in AllStreams |->
                           IF s \in Streams THEN Context(s, failed) ELSE {}]
         /\ IF failed # -1
            THEN /\ init_error' = TRUE
                 /\ init_error_message' = Message("Stream", failed, "Init failed")
                 /\ UNCHANGED <<r_pc, w_pc, rp_pc>>
            ELSE /\ r_pc' = [s \in AllStreams |-> IF s \in Streams THEN "loop" ELSE "none"]
                 /\ rp_pc' = [r \in 0..(MaxCores - 1) |->
                                IF PooledReaders /\ r \in ReaderThreads
                                THEN "check" ELSE "none"]
                 /\ w_pc' = [s \in AllStreams |->
                                IF s < worker_count_ THEN "start" ELSE "none"]
                 /\ UNCHANGED <<init_error, init_error_message>>
    /\ h_pc' = "arrive"
    /\ UNCHANGED <<stop_flag, barrier_arrived, sr_has_error, sr_error, h_start, h_elapsed>>
    /\ UNCHANGED <<r_pos, r_pass, r_seq, r_has_error, r_error>>
    /\ UNCHANGED <<total_frames, frames_decoded, has_error, error_message, finished,
                   init_done, arrivals>>
    /\ UNCHANGED <<rp_idx, any_active, any_did_work>>
    /\ UNCHANGED <<stream_count, cpu_cores, is_live_stream, read_cap, m_pc, video_path,
                   measurement_duration, d_delay, worker_count_, init_fails>>
    /\ UNCHANGED <<qvars, bvars, msvars, svars, pvars, queue, dvars>>

\* start_barrier.arrive_and_wait(): the harness arrives
H_Arrive ==
    /\ h_pc = "arrive"
    /\ barrier_arrived' = barrier_arrived + 1
    /\ h_pc' = "wait"
    /\ UNCHANGED <<stop_flag, init_error, init_error_message, h_start, h_elapsed,
                   sr_has_error, sr_error>>
    /\ UNCHANGED <<qvars, bvars, msvars, cfgvars, svars, pvars, queue, rdvars, wvars, dvars, rpvars>>

\* arrive_and_wait returns; the measurement window starts
H_PassBarrier ==
    /\ h_pc = "wait"
    /\ BarrierOpen
    /\ h_pc' = "measure"
    /\ h_start' = clock
    /\ UNCHANGED <<stop_flag, barrier_arrived, init_error, init_error_message, h_elapsed,
                   sr_has_error, sr_error>>
    /\ UNCHANGED <<qvars, bvars, msvars, cfgvars, svars, pvars, queue, rdvars, wvars, dvars, rpvars>>

\* sleep_for(measurement_duration) is over: stop_flag.store(true), then
\* end_time is read and elapsed is end_time - start_time
H_Stop ==
    /\ h_pc = "measure"
    /\ clock >= h_start + measurement_duration
    /\ stop_flag' = TRUE
    /\ h_elapsed' = clock - h_start
    /\ h_pc' = "join"
    /\ UNCHANGED <<barrier_arrived, init_error, init_error_message, h_start, sr_has_error,
                   sr_error>>
    /\ UNCHANGED <<qvars, bvars, msvars, cfgvars, svars, pvars, queue, rdvars, wvars, dvars, rpvars>>

\* the streams that ended with an error, as the harness sees them
Errored == {s \in Streams : has_error[s]}
FirstErrored == CHOOSE s \in Errored : \A t \in Errored : s <= t

\* runSingleTestDirect: thread->join() for every thread, then the results:
\* the first thread with hasError() gives "Thread <id>: <message>"
H_JoinDirect ==
    /\ h_pc = "join"
    /\ ~use_pool
    /\ \A w \in Streams : w_pc[w] = "done"
    /\ sr_has_error' = (Errored # {})
    /\ sr_error' = IF Errored # {}
                   THEN Message("Thread", FirstErrored, error_message[FirstErrored])
                   ELSE NoMessage
    /\ h_pc' = "done"
    /\ UNCHANGED <<stop_flag, barrier_arrived, init_error, init_error_message, h_start, h_elapsed>>
    /\ UNCHANGED <<qvars, bvars, msvars, cfgvars, svars, pvars, queue, rdvars, wvars, dvars, rpvars>>

\* (mutant) join drains the decoders and leaves the published counts alone
H_JoinWorkers_NoPublish ==
    /\ h_pc = "join"
    /\ use_pool
    /\ \A w \in Streams : w_pc[w] \in {"done", "none"}
    /\ total_frames' = [s \in AllStreams |->
          IF s \in Streams /\ ~has_error[s] THEN total_frames[s] + d_buf[s]
          ELSE total_frames[s]]
    /\ UNCHANGED frames_decoded
    /\ d_buf' = [s \in AllStreams |->
          IF s \in Streams /\ ~has_error[s] THEN 0 ELSE d_buf[s]]
    /\ h_pc' = "join_readers"
    /\ UNCHANGED <<d_last, d_pass, d_flushed, last_seq>>
    /\ UNCHANGED <<w_pc, has_error, error_message, finished, init_done, arrivals>>
    /\ UNCHANGED <<stop_flag, barrier_arrived, init_error, init_error_message, h_start, h_elapsed,
                   sr_has_error, sr_error>>
    /\ UNCHANGED <<qvars, bvars, msvars, cfgvars, svars, pvars, queue, rdvars, rpvars>>
\* (mutant) the decoders are flushed without joining the workers
H_JoinWorkers_NoWait ==
    /\ h_pc = "join"
    /\ use_pool
    /\ total_frames' = [s \in AllStreams |->
          IF s \in Streams /\ ~has_error[s] THEN total_frames[s] + d_buf[s]
          ELSE total_frames[s]]
    /\ frames_decoded' = total_frames'
    /\ d_buf' = [s \in AllStreams |->
          IF s \in Streams /\ ~has_error[s] THEN 0 ELSE d_buf[s]]
    /\ h_pc' = "join_readers"
    /\ UNCHANGED <<d_last, d_pass, d_flushed, last_seq>>
    /\ UNCHANGED <<w_pc, has_error, error_message, finished, init_done, arrivals>>
    /\ UNCHANGED <<stop_flag, barrier_arrived, init_error, init_error_message, h_start, h_elapsed,
                   sr_has_error, sr_error>>
    /\ rp_pc' = [r \in 0..(MaxCores - 1) |-> IF rp_pc[r] = "wait" THEN "woken" ELSE rp_pc[r]]
    /\ UNCHANGED <<rp_idx, any_active, any_did_work>>
    /\ UNCHANGED <<qvars, bvars, msvars, cfgvars, svars, pvars, queue, rdvars>>

\* DecoderPool::join, first half: the workers are joined, every decoder
\* without error is drained and the final frame counts are published
H_JoinWorkers ==
    /\ h_pc = "join"
    /\ use_pool
    /\ \A w \in Streams : w_pc[w] \in {"done", "none"}
    /\ total_frames' = [s \in AllStreams |->
          IF s \in Streams /\ ~has_error[s] THEN total_frames[s] + d_buf[s]
          ELSE total_frames[s]]
    /\ frames_decoded' = total_frames'
    /\ d_buf' = [s \in AllStreams |->
          IF s \in Streams /\ ~has_error[s] THEN 0 ELSE d_buf[s]]
    /\ h_pc' = "join_readers"
    /\ UNCHANGED <<d_last, d_pass, d_flushed, last_seq>>
    /\ UNCHANGED <<w_pc, has_error, error_message, finished, init_done, arrivals>>
    /\ UNCHANGED <<stop_flag, barrier_arrived, init_error, init_error_message, h_start, h_elapsed,
                   sr_has_error, sr_error>>
    /\ rp_pc' = [r \in 0..(MaxCores - 1) |-> IF rp_pc[r] = "wait" THEN "woken" ELSE rp_pc[r]]
    /\ UNCHANGED <<rp_idx, any_active, any_did_work>>
    /\ UNCHANGED <<qvars, bvars, msvars, cfgvars, svars, pvars, queue, rdvars>>

ReaderThreadsDone ==
    IF PooledReaders
    THEN \A r \in ReaderThreads : rp_pc[r] \in {"done", "none"}
    ELSE \A s \in Streams : r_pc[s] \in {"done", "none"}

\* DecoderPool::join, second half: the reader threads are joined; then
\* runSingleTestPool builds the result: the init error, or the first stream
\* without success gives "Stream <id>: <message>"
H_JoinReaders ==
    /\ h_pc = "join_readers"
    /\ ReaderThreadsDone
    /\ sr_has_error' = (init_error \/ Errored # {})
    /\ sr_error' = IF init_error THEN init_error_message
                   ELSE IF Errored # {}
                   THEN Message("Stream", FirstErrored, error_message[FirstErrored])
                   ELSE NoMessage
    /\ h_pc' = "done"
    /\ UNCHANGED <<stop_flag, barrier_arrived, init_error, init_error_message, h_start, h_elapsed>>
    /\ UNCHANGED <<qvars, bvars, msvars, cfgvars, svars, pvars, queue, rdvars, wvars, dvars, rpvars>>

HarnessNext ==
    \/ H_CreateDirect
    \/ H_CreatePool
    \/ H_Arrive
    \/ H_PassBarrier
    \/ H_Stop
    \/ H_JoinDirect
    \/ H_JoinWorkers
    \/ H_JoinReaders

\* the dedicated reader threads exist in direct mode and in 1:1 pool mode
DedicatedReaderNext(s) == ~PooledReaders /\ ReaderNext(s)
PoolReaderNext(r) == PooledReaders /\ ReaderLoopNext(r)

NextRun ==
    \/ HarnessNext
    \/ \E s \in Streams : ~PooledReaders /\ ReaderRead(s)
    \/ \E s \in Streams : ~PooledReaders /\ ReaderPushFlushMarker(s)
    \/ \E s \in Streams : ~PooledReaders /\ ReaderPush(s)
    \/ \E s \in Streams : ~PooledReaders /\ ReaderExit(s)
    \/ \E r \in ReaderThreads : PooledReaders /\ RL_Check(r)
    \/ \E r \in ReaderThreads : PooledReaders /\ RL_Read(r)
    \/ \E r \in ReaderThreads : PooledReaders /\ RL_PassEnd(r)
    \/ \E r \in ReaderThreads : PooledReaders /\ RL_Wake(r)
    \/ \E r \in ReaderThreads : PooledReaders /\ RL_Recheck(r)
    \/ \E r \in ReaderThreads : PooledReaders /\ RL_Exit(r)
    \/ \E w \in Streams : ~use_pool /\ DT_Start(w)
    \/ \E w \in Streams : ~use_pool /\ DT_PassBarrier(w)
    \/ \E w \in Streams : ~use_pool /\ DT_Top(w)
    \/ \E w \in Streams : ~use_pool /\ DT_Pop(w)
    \/ \E w \in Streams : ~use_pool /\ DT_CheckEof(w)
    \/ \E w \in Streams : ~use_pool /\ DT_Flush(w)
    \/ \E w \in Streams : ~use_pool /\ DT_Return(w)
    \/ \E w \in Streams : use_pool /\ WL_Start(w)
    \/ \E w \in Streams : use_pool /\ WL_PassBarrier(w)
    \/ \E w \in Streams : use_pool /\ WL_Spin(w)
    \/ \E w \in Streams : use_pool /\ WL_Top(w)
    \/ \E w \in Streams : use_pool /\ WL_Pop(w)
    \/ \E w \in Streams : use_pool /\ WL_CheckEof(w)

(***************************************************************************)
(* The timed run: the workers and the harness as above, time that passes   *)
(* between their steps, and PacketReader::run cut down to what the worker  *)
(* sees of it: packets and flush markers arrive in the queue, then EOF     *)
(***************************************************************************)

\* time passes while the threads are scheduled, decode and wait
P_Tick ==
    /\ clock < (IF LongRun THEN MaxClock ELSE MaxClockRun)
    /\ clock' = clock + 1
    /\ UNCHANGED <<start_time_, next_frame_time, lag_count, max_lag_ms, t0>>
    /\ UNCHANGED <<qvars, bvars, msvars, cfgvars, svars, hvars, queue, rdvars, wvars, dvars,
                   rpvars>>

\* av_read_frame gave a video packet and queue_.push(packet_, 100ms) took it
P_Feed(s) ==
    /\ r_pc[s] = "loop"
    /\ ~stop_flag
    /\ r_seq[s] < read_cap
    /\ pushReturns(queue[s], RunQueueCap, TRUE)
    /\ r_seq' = [r_seq EXCEPT ![s] = @ + 1]
    /\ queue' = [queue EXCEPT ![s] =
                   push(@, RunQueueCap, [seq |-> r_seq[s] + 1, pass |-> r_pass[s]], TRUE)]
    /\ UNCHANGED <<r_pc, r_pos, r_pass, r_has_error, r_error>>
    /\ UNCHANGED <<qvars, bvars, msvars, cfgvars, svars, pvars, hvars, wvars, dvars, rpvars>>

\* the file ended: seek to the start and queue_.pushFlushMarker(100ms)
P_FeedFlushMarker(s) ==
    /\ r_pc[s] = "loop"
    /\ ~stop_flag
    /\ r_seq[s] > 0
    /\ r_pass[s] < MaxPasses
    /\ pushFlushMarkerReturns(queue[s], RunQueueCap)
    /\ r_pass' = [r_pass EXCEPT ![s] = @ + 1]
    /\ queue' = [queue EXCEPT ![s] = pushFlushMarker(@, RunQueueCap)]
    /\ UNCHANGED <<r_pc, r_pos, r_seq, r_has_error, r_error>>
    /\ UNCHANGED <<qvars, bvars, msvars, cfgvars, svars, pvars, hvars, wvars, dvars, rpvars>>

\* run() ends, on stop_flag_ or on a read error: queue_.signalEof()
P_FeedEnd(s) ==
    /\ r_pc[s] = "loop"
    /\ \E failed \in BOOLEAN :
         /\ failed \/ stop_flag
         /\ r_has_error' = [r_has_error EXCEPT ![s] = failed]
         /\ r_error' = [r_error EXCEPT ![s] = IF failed THEN "Read error" ELSE @]
    /\ queue' = [queue EXCEPT ![s] = signalEof(@)]
    /\ r_pc' = [r_pc EXCEPT ![s] = "done"]
    /\ UNCHANGED <<r_pos, r_pass, r_seq>>
    /\ UNCHANGED <<qvars, bvars, msvars, cfgvars, svars, pvars, hvars, wvars, dvars, rpvars>>

NextFrames ==
    \/ HarnessNext
    \/ \E s \in Streams : P_Feed(s)
    \/ \E s \in Streams : P_FeedFlushMarker(s)
    \/ \E s \in Streams : P_FeedEnd(s)
    \/ \E w \in Streams : ~use_pool /\ DT_Start(w)
    \/ \E w \in Streams : ~use_pool /\ DT_PassBarrier(w)
    \/ \E w \in Streams : ~use_pool /\ DT_Top(w)
    \/ \E w \in Streams : ~use_pool /\ DT_Pop(w)
    \/ \E w \in Streams : ~use_pool /\ DT_CheckEof(w)
    \/ \E w \in Streams : ~use_pool /\ DT_Flush(w)
    \/ \E w \in Streams : ~use_pool /\ DT_Return(w)
    \/ \E w \in Streams : use_pool /\ WL_Start(w)
    \/ \E w \in Streams : use_pool /\ WL_PassBarrier(w)
    \/ \E w \in Streams : use_pool /\ WL_Spin(w)
    \/ \E w \in Streams : use_pool /\ WL_Top(w)
    \/ \E w \in Streams : use_pool /\ WL_Pop(w)
    \/ \E w \in Streams : use_pool /\ WL_CheckEof(w)

NextPace ==
    \/ P_Tick
    \/ NextFrames
    \/ \E w \in Streams : use_pool /\ MS_Begin(w)
    \/ \E w \in Streams : use_pool /\ MS_Visit(w)
    \/ \E w \in Streams : use_pool /\ MS_Drain(w)
    \/ \E w \in Streams : use_pool /\ MS_End(w)

\* the thread that feeds stream s and the worker thread w, whatever the mode
WorkerNext(w) == w \in Streams /\ (DecoderThreadNext(w) \/ WorkerLoopNext(w))

\* every thread that can take a step eventually takes one
FairRun ==
    /\ WF_vars(HarnessNext)
    /\ \A s \in AllStreams : WF_vars(s \in Streams /\ DedicatedReaderNext(s))
    /\ \A r \in 0..(MaxCores - 1) : WF_vars(r \in ReaderThreads /\ PoolReaderNext(r))
    /\ \A w \in AllStreams : WF_vars(WorkerNext(w))

(***************************************************************************)
(* A single test: runSingleTest chooses the mode and the thread counts,    *)
(* calculateTestResult judges the measurements                             *)
(***************************************************************************)
\* runSingleTest: the mode
S_Select ==
    /\ s_pc = "select"
    /\ s_mode' = IF use_pool THEN "pool" ELSE "direct"
    /\ s_pc' = "configure"
    /\ UNCHANGED <<decoder_threads, s_worker_count, s_reader_count, target_fps, elapsed,
                   per_stream_frames, cpu_usage, cpu_threshold, min_fps, fps_passed,
                   cpu_passed, passed>>
    /\ UNCHANGED <<qvars, bvars, msvars, cfgvars, pvars, hvars, queue, rdvars, wvars, dvars, rpvars>>

\* (mutant) frame threading is kept up to and including the threshold
decoderThreads_ThresholdOff(n, cores) ==
    IF n > kMultiThreadStreamThreshold THEN 1
    ELSE IF cores \div n > 1 THEN cores \div n ELSE 1

\* runSingleTestDirect: decoder_threads = 1 from kMultiThreadStreamThreshold
\* streams on, else std::max(1, cpu_cores / stream_count)
decoderThreads(n, cores) ==
    IF n >= kMultiThreadStreamThreshold THEN 1
    ELSE IF cores \div n > 1 THEN cores \div n ELSE 1

\* the threads of the test: one DecoderThread with its own reader per stream,
\* or a DecoderPool(worker_count, reader_count) with decoder_thread_count 1
S_Configure ==
    /\ s_pc = "configure"
    /\ decoder_threads' =
          IF s_mode = "direct" THEN decoderThreads(stream_count, cpu_cores) ELSE 1
    /\ s_worker_count' = IF s_mode = "direct" THEN stream_count ELSE worker_count
    /\ s_reader_count' = IF s_mode = "direct" THEN stream_count ELSE reader_count
    /\ s_pc' = "measure"
    /\ UNCHANGED <<s_mode, target_fps, elapsed, per_stream_frames, cpu_usage,
                   cpu_threshold, min_fps, fps_passed, cpu_passed, passed>>
    /\ UNCHANGED <<qvars, bvars, msvars, cfgvars, pvars, hvars, queue, rdvars, wvars, dvars, rpvars>>

\* fps = (elapsed > 0) ? frames / elapsed : 0.0, as the rate <<num, den>>
Rate(frames, seconds) == IF seconds > 0 THEN <<frames, seconds>> ELSE <<0, 1>>

\* a <= b for rates
RateLeq(a, b) == a[1] * b[2] <= b[1] * a[2]

\* *std::min_element(per_stream_fps.begin(), per_stream_fps.end())
minElement(rates) ==
    LET i == CHOOSE k \in 1..Len(rates) :
                 /\ \A j \in 1..Len(rates) : RateLeq(rates[k], rates[j])
                 /\ \A j \in 1..(k - 1) : ~RateLeq(rates[j], rates[k])
    IN rates[i]

\* (mutant) a stream exactly at the tolerance fails
fpsPassed_Strict(fps, target) == fps[1] * 100 > target * kFpsTolerance * fps[2]

\* test_result.min_fps >= (target_fps * kFpsTolerance)
fpsPassed(fps, target) == fps[1] * 100 >= target * kFpsTolerance * fps[2]

\* test_result.cpu_usage <= config_.cpu_threshold
cpuPassed(usage, threshold) == usage <= threshold

\* calculateTestResult
S_Measure ==
    /\ s_pc = "measure"
    /\ LET per_stream_fps == [i \in 1..Len(per_stream_frames) |->
                                 Rate(per_stream_frames[i], elapsed)]
           m == minElement(per_stream_fps)
       IN /\ min_fps' = m
          /\ fps_passed' = fpsPassed(m, target_fps)
          /\ cpu_passed' = cpuPassed(cpu_usage, cpu_threshold)
          /\ passed' = (fpsPassed(m, target_fps) /\ cpuPassed(cpu_usage, cpu_threshold))
    /\ s_pc' = "done"
    /\ UNCHANGED <<s_mode, decoder_threads, s_worker_count, s_reader_count, target_fps,
                   elapsed, per_stream_frames, cpu_usage, cpu_threshold>>
    /\ UNCHANGED <<qvars, bvars, msvars, cfgvars, pvars, hvars, queue, rdvars, wvars, dvars, rpvars>>

NextSingle ==
    \/ S_Select
    \/ S_Configure
    \/ S_Measure

(***************************************************************************)
(* main: CliParser::parse, VideoAnalyzer::analyze, then BenchmarkRunner     *)
(* with the video info analyze returned                                    *)
(***************************************************************************)
\* the sources given on the command line, and the files that exist
Sources == {<<"rtsp://", "cam/live">>, <<"rtsps://", "cam/live">>,
            <<"", "clip.mp4">>, <<"", "missing.mp4">>}
exists(path) == path = <<"", "clip.mp4">>

\* video_path.find("rtsp://") == 0 || video_path.find("rtsps://") == 0
is_rtsp(path) == path[1] = "rtsp://" \/ path[1] = "rtsps://"

\* the VideoInfo analyze returns: every field is assigned from the container
\* but is_live_stream, which keeps its default member initialiser
analyze(path) == [file_path |-> path, is_live_stream |-> FALSE]

\* CliParser::parse: a source that is neither an RTSP URL nor an existing
\* file is refused
M_Parse ==
    /\ m_pc = "parse"
    /\ m_pc' = IF ~is_rtsp(video_path) /\ ~exists(video_path) THEN "exit" ELSE "analyze"
    /\ UNCHANGED <<stream_count, cpu_cores, is_live_stream, read_cap, video_path,
                   measurement_duration, d_delay, worker_count_, init_fails, streams_>>
    /\ UNCHANGED <<qvars, bvars, msvars, svars, pvars, hvars, queue, rdvars, wvars, dvars,
                   rpvars>>

\* VideoAnalyzer::analyze fails, or returns the video info the runner is
\* constructed with
M_Analyze ==
    /\ m_pc = "analyze"
    /\ \E ok \in BOOLEAN :
         IF ok
         THEN /\ is_live_stream' = analyze(video_path).is_live_stream
              /\ m_pc' = "run"
         ELSE /\ m_pc' = "exit"
              /\ UNCHANGED is_live_stream
    /\ UNCHANGED <<stream_count, cpu_cores, read_cap, video_path, measurement_duration,
                   d_delay, worker_count_, init_fails, streams_>>
    /\ UNCHANGED <<qvars, bvars, msvars, svars, pvars, hvars, queue, rdvars, wvars, dvars,
                   rpvars>>

\* runner.run(): the runs of the benchmark start once main has the video info
M_Run == m_pc = "run" /\ NextRun

NextMain ==
    \/ M_Parse
    \/ M_Analyze
    \/ M_Run

(***************************************************************************)
(* Specifications                                                          *)
(***************************************************************************)
\* the queue alone, under a producer and a consumer
InitQueueOnly == InitQueue(BOOLEAN) /\ InitBench({1}, {FALSE}) /\ InitNoRun
SpecQueue == InitQueueOnly /\ [][NextQueue]_vars

\* the capacity search
InitBenchOnly == InitBench(1..MaxStreamsCfg, BOOLEAN) /\ InitQueue({FALSE}) /\ InitNoRun
SpecBench == InitBenchOnly /\ [][NextBench]_vars

\* a run of 1..MaxStreams streams on a host of 1..MaxCores cores
InitRuns ==
    /\ InitQueue({FALSE}) /\ InitBench({1}, {FALSE})
    /\ InitRun(1..MaxStreams, 1..MaxCores, MaxReads, {0}, {MaxBuffered}, {worker_count}) /\ InitSingle(FALSE)
    /\ InitRunner
SpecRun == InitRuns /\ [][NextRun]_vars
SpecRunFair == InitRuns /\ [][NextRun]_vars /\ FairRun

\* single tests of 1..MaxSingleStreams streams on 1..MaxSingleCores cores
InitSingleTests ==
    /\ InitQueue({FALSE}) /\ InitBench({1}, {FALSE})
    /\ InitRun(1..MaxSingleStreams, 1..MaxSingleCores, MaxReads, {0}, {MaxBuffered}, {worker_count})
    /\ is_live_stream = FALSE
    /\ InitSingle(TRUE) /\ InitRunner
SpecSingle == InitSingleTests /\ [][NextSingle]_vars

\* the program from its command line on
InitMain ==
    /\ InitQueue({FALSE}) /\ InitBench({1}, {FALSE})
    /\ InitRun(1..MaxStreams, 1..MaxCores, MaxReads, {0}, {MaxBuffered}, {worker_count}) /\ is_live_stream = FALSE
    /\ InitSingle(FALSE)
    /\ m_pc = "parse" /\ video_path \in Sources
SpecMain == InitMain /\ [][NextMain]_vars

\* timed runs in which every stream has a reader of its own: a pool of as
\* many cores as streams, or direct mode on more cores
InitPaceRuns ==
    /\ InitQueue({FALSE}) /\ InitBench({1}, {FALSE})
    /\ InitRun(1..MaxStreams, {stream_count, MaxPaceCores}, MaxFedPace, {0}, {MaxBuffered},
               {worker_count})
    /\ is_live_stream = FALSE /\ InitSingle(FALSE) /\ InitRunner

\* a DecoderPool made with one worker for MaxStreams streams, every stream
\* with a reader of its own, after the worker seeded the streams
InitScan ==
    /\ InitQueue({FALSE}) /\ InitBench({1}, {FALSE})
    /\ InitRunConfig({MaxStreams}, {MaxStreams}, MaxFedScan, {0}, {MaxBuffered}, {1})
    /\ InitRunSeeded /\ InitRunRest
    /\ is_live_stream = FALSE /\ InitSingle(FALSE) /\ InitRunner

InitPace == InitPaceRuns \/ InitScan
SpecPace == InitPace /\ [][NextPace]_vars

\* the same runs, long enough for a batch of frames, the clock moving in
\* sleep_until alone
InitFrames ==
    /\ InitQueue({FALSE}) /\ InitBench({1}, {FALSE})
    /\ InitRun(1..MaxStreams, {stream_count, MaxPaceCores}, MaxFed,
               {0, MeasurementDuration}, {0, MaxBuffered}, {worker_count})
    /\ is_live_stream = FALSE /\ InitSingle(FALSE) /\ InitRunner
SpecFrames == InitFrames /\ [][NextFrames]_vars

(***************************************************************************)
(* Claims                                                                  *)
(***************************************************************************)

\* C2: under any interleaving of push, pushFlushMarker, pop, signalEof and
\* clear, the number of queued items (packets and flush markers) stays within
\* 0 <= size <= capacity.
C2_SizeWithinCapacity == 0 <= size(pq) /\ size(pq) <= QueueCap

\* a push was refused on a queue filled to its capacity
C2_Witness == size(pq) = QueueCap /\ pq_op = "push" /\ pq_ret = "false" /\ ~pq.eof

\* the stream counts of the entries of test_results that passed
PassedCounts == {test_results[i].stream_count :
                    i \in {j \in 1..Len(test_results) : test_results[j].passed}}

GreatestPassed ==
    IF PassedCounts = {} THEN 0
    ELSE CHOOSE n \in PassedCounts : \A m \in PassedCounts : m <= n

\* C3: in every result run() returns, completed or aborted by a run error,
\* max_streams is the greatest stream_count among the passed entries of
\* test_results, and 0 when none passed.
C3_MaxStreamsIsGreatestPassed ==
    b_pc = "done" => res_max_streams = GreatestPassed

\* the runs so far passed exactly for N <= T and failed for N > T
PassesExactlyUpTo(T) ==
    \A i \in 1..Len(test_results) :
        test_results[i].passed <=> (test_results[i].stream_count <= T)

ProbeOrder == [i \in 1..Len(test_results) |-> test_results[i].stream_count]

MinOf(a, b) == IF a < b THEN a ELSE b

\* C4: when the single runs pass exactly for N <= T and fail for N > T
\* (T >= 1), the search reports max_streams = min(T, configured max_streams);
\* with max_streams = 20 and T = 6 the runs are 1, 2, 4, 8, 6, 7 in that order.
C4_CapacityIsThreshold ==
    (b_pc = "done" /\ res_success) =>
        \A T \in 1..(MaxStreamsCfg + 1) :
            PassesExactlyUpTo(T) =>
                /\ res_max_streams = MinOf(T, b_cfg)
                /\ (b_cfg = 20 /\ T = 6) => ProbeOrder = <<1, 2, 4, 8, 6, 7>>

\* the search of the example has ended: 8 failed, 6 passed, 7 failed
C4_Witness ==
    /\ b_pc = "done" /\ res_success /\ b_cfg = 20
    /\ PassesExactlyUpTo(6)
    /\ ProbeOrder = <<1, 2, 4, 8, 6, 7>>
    /\ res_max_streams = 6

\* a worker thread that runs and has yet to arrive at start_barrier
YetToArrive(w) == w_pc[w] \in {"open", "start"}

\* C1: in every run, direct or pooled, with or without a stream that failed
\* to initialise, each worker thread arrives at the start barrier exactly
\* once, so the harness's own arrive_and_wait returns; and a run in which a
\* stream failed to initialise ends reporting an error.
C1_WorkersArriveOnce ==
    /\ h_pc = "wait" =>
          \A w \in Streams : arrivals[w] = 1 \/ (arrivals[w] = 0 /\ YetToArrive(w))
    /\ (h_pc = "done" /\
          (init_error \/ \E w \in Streams : error_message[w] = "Init failed"))
          => sr_has_error

\* C5: while the stop flag is not set, the packets the worker pops carry
\* consecutive sequence numbers: a push that timed out is retried with the
\* same packet, no video packet read from the source is left out.
C5_NoPacketLeftOut ==
    [][\A s \in AllStreams :
          (~stop_flag /\ last_seq'[s] # last_seq[s]) => last_seq'[s] = last_seq[s] + 1]_vars

\* C6: in file mode with the pooled single-stream worker, the first packet of
\* a later pass over the file is decoded only after flush_buffers was called
\* since the last packet of the pass before: the flush marker of every
\* source EOF reached the worker.
C6_FlushBetweenPasses ==
    [][\A s \in AllStreams :
          (use_pool /\ d_pass[s] >= 1 /\ d_pass'[s] > d_pass[s]) => d_flushed[s]]_vars

\* C7: in every worker loop a popped flush marker is never passed to
\* decode_from_packet.
C7_MarkerNeverDecoded == \A s \in AllStreams : d_last[s] # "nullptr"

\* the readers that recorded an error; with dedicated reader threads every
\* such error was recorded while the stop flag was not set
ReaderErrors == {s \in Streams : r_has_error[s]}

\* C8: when a reader recorded a read error or a live EOF before the stop
\* flag was set (and no decoder failed), the run result has has_error set and
\* carries the message "Stream <id>: <reader error>" of such a stream.
C8_ReaderErrorSurfaced ==
    (/\ h_pc = "done"
     /\ ~PooledReaders
     /\ ReaderErrors # {}
     /\ \A s \in Streams : error_message[s] # "Decode error")
    => /\ sr_has_error
       /\ \E s \in ReaderErrors : sr_error = Message("Stream", s, r_error[s])

\* the thread that produces into the queue of stream s has ended
ProducerGone(s) ==
    IF PooledReaders THEN rp_pc[s % reader_count] = "done" ELSE r_pc[s] = "done"

\* C9: whenever the producer thread of a stream's queue has exited (a
\* dedicated reader leaving run(), a reader-pool thread leaving readerLoop),
\* signal_eof has been called on that queue.
C9_ExitedProducerSignalledEof ==
    \A s \in Streams : ProducerGone(s) => queue[s].eof

\* a producer left because of a reader error while the run was not stopped
C9_Witness ==
    \E s \in Streams :
        ProducerGone(s) /\ queue[s].eof /\ r_has_error[s] /\ ~stop_flag

AllThreadsDone ==
    /\ \A s \in Streams : w_pc[s] \in {"done", "none"} /\ r_pc[s] \in {"done", "none"}
    /\ \A r \in ReaderThreads : rp_pc[r] \in {"done", "none"}

\* C10: after the harness has set the stop flag, under fair scheduling every
\* reader thread, reader-pool thread and worker thread ends and the harness's
\* join returns, in direct mode and in pooled mode.
C10_StopLeadsToJoin == stop_flag ~> (h_pc = "done" /\ AllThreadsDone)

\* a pooled run with a reader pool that decoded frames, was stopped and joined
C10_Witness ==
    /\ h_pc = "done" /\ stop_flag /\ AllThreadsDone
    /\ PooledReaders
    /\ \E s \in Streams : total_frames[s] > 0

\* the item a pop has taken from the queue and not yet returned
InFlight == IF c_pc = "unlocked" /\ c_did_pop THEN <<c_packet>> ELSE <<>>

\* s is an initial part of t
IsPrefix(s, t) == Len(s) <= Len(t) /\ SubSeq(t, 1, Len(s)) = s

\* C11: pop on an empty queue with eof set returns none without waiting for
\* its timeout; pop on a non-empty queue returns the head item even when eof
\* is set; so after signal_eof nothing is added and the consumer is given
\* exactly the items queued before it, then none.
C11_PopAfterEof ==
    [][/\ (c_pc = "idle" /\ c_pc' = "unlocked") =>
            /\ pq.items # <<>> =>
                  c_did_pop' /\ c_packet' = Head(pq.items) /\ pq'.items = Tail(pq.items)
            /\ (pq.items = <<>> /\ pq.eof) => ~c_did_pop' /\ ~timed_out' /\ pq' = pq
       /\ (c_pc = "unlocked" /\ c_pc' = "idle") =>
            pq_ret' = (IF c_did_pop THEN "item" ELSE "none")
       /\ pq.eof => pq_pushed' = pq_pushed
       /\ ~pq_cleared => pq_popped \o InFlight \o pq.items = pq_pushed]_vars

\* after eof the consumer got everything that was queued, then none at once
C11_Witness ==
    /\ pq.eof /\ pq_op = "pop" /\ pq_ret = "none" /\ ~timed_out
    /\ ~pq_cleared /\ pq_popped = pq_pushed /\ Len(pq_popped) >= 2

\* C12: once signal_eof was called the eof flag stays set, whatever is
\* called afterwards (clear included), and the queue never grows again.
C12_EofSticky == [][pq.eof => pq'.eof /\ Len(pq'.items) <= Len(pq.items)]_vars

\* a flush marker was refused by a queue that has room but whose eof is set
C12_Witness ==
    pq.eof /\ pq_op = "pushFlushMarker" /\ pq_ret = "false" /\ size(pq) < QueueCap

\* C13: push and pushFlushMarker return true exactly when they appended one
\* item (their argument) at the tail; when they return false the queue is as
\* it was.
C13_PushReturnsTrueIffAppended ==
    [][pq_op' \in {"push", "pushFlushMarker"} =>
          IF pq_ret' = "true"
          THEN pq' = [pq EXCEPT !.items = Append(@, pq_arg')]
          ELSE pq' = pq]_vars

\* a push failed although there was room and no eof: no copy of the packet
C13_Witness ==
    /\ pq_op = "push" /\ pq_ret = "false"
    /\ ~timed_out /\ ~pq.eof /\ size(pq) < QueueCap /\ size(pq) >= 1

\* C14: the queue is FIFO over packets and flush markers together: what the
\* successful pops returned is an initial part of what the successful pushes
\* and pushFlushMarkers appended; a flush marker comes out as a present value
\* (the null packet), unlike any packet and unlike the none of timeout or EOF.
C14_Fifo ==
    /\ ~pq_cleared => IsPrefix(pq_popped, pq_pushed)
    /\ nullptr \notin QPackets
    /\ (pq_op = "pop" /\ pq_ret = "item") =>
          /\ c_did_pop
          /\ pq_popped # <<>> /\ pq_popped[Len(pq_popped)] = c_packet
          /\ c_packet = nullptr \/ c_packet \in QPackets
    /\ (pq_op = "pop" /\ pq_ret = "none") => ~c_did_pop

\* a flush marker was popped after a packet, with another packet behind it
C14_Witness ==
    /\ pq_op = "pop" /\ pq_ret = "item" /\ c_packet = nullptr
    /\ ~pq_cleared /\ Len(pq_popped) = 2 /\ pq_popped[1] \in QPackets
    /\ pq.items # <<>> /\ Head(pq.items) \in QPackets

\* C15: with a space callback registered, every pop that returns an item
\* invokes it exactly once, outside the lock scope; a pop that returns none,
\* and a queue without a callback, invoke nothing.
C15_CallbackOncePerPop ==
    /\ cb_calls = (IF space_callback_ THEN Len(pq_popped) ELSE 0)
    /\ ~cb_under_lock

\* two items were popped with a callback registered, then a pop gave none
C15_Witness ==
    /\ space_callback_ /\ cb_calls = 2
    /\ pq_op = "pop" /\ pq_ret = "none"

\* C17: with N streams on cpu_cores cores, N < cpu_cores gives direct mode
\* with one worker and one reader per stream and decoder_threads =
\* max(1, cpu_cores / N) when N < 4, else 1; N >= cpu_cores gives pooled mode
\* with worker_count = N, reader_count = cpu_cores and decoder_threads = 1.
C17_ModeAndThreadCounts ==
    s_pc \in {"measure", "done"} =>
        IF stream_count < cpu_cores
        THEN /\ s_mode = "direct"
             /\ s_worker_count = stream_count /\ s_reader_count = stream_count
             /\ \E q \in 0..cpu_cores :
                    /\ q * stream_count <= cpu_cores
                    /\ cpu_cores < (q + 1) * stream_count
                    /\ decoder_threads =
                          (IF stream_count < 4 THEN (IF q >= 1 THEN q ELSE 1) ELSE 1)
        ELSE /\ s_mode = "pool"
             /\ s_worker_count = stream_count /\ s_reader_count = cpu_cores
             /\ decoder_threads = 1

\* a direct test of 4 streams on 8 cores: one decoder thread each, although
\* 8 / 4 = 2
C17_Witness ==
    /\ s_pc = "done" /\ s_mode = "direct"
    /\ stream_count = 4 /\ cpu_cores = 8 /\ decoder_threads = 1

\* C18: a test with one stream never takes the pooled path, whatever number
\* of cores the host reports.
C18_SingleStreamNeverPooled ==
    (stream_count = 1 /\ s_pc # "select") => s_mode # "pool"

\* v is the least of the rates of the streams
IsLeastRate(v) ==
    /\ \E i \in 1..stream_count : v = Rate(per_stream_frames[i], elapsed)
    /\ \A i \in 1..stream_count : RateLeq(v, Rate(per_stream_frames[i], elapsed))

\* C19: for every completed test fps_passed holds exactly when min_fps >=
\* 0.98 x target_fps, cpu_passed exactly when cpu_usage <= cpu_threshold, and
\* passed = fps_passed and cpu_passed.
C19_PassCriteria ==
    s_pc = "done" =>
        /\ IsLeastRate(min_fps)
        /\ fps_passed <=> (min_fps[1] * 100 >= 98 * target_fps * min_fps[2])
        /\ cpu_passed <=> (cpu_usage <= cpu_threshold)
        /\ passed <=> (fps_passed /\ cpu_passed)

\* the slowest stream is exactly at 98% of 30 fps (2940 frames in 100 s) and
\* the cpu usage exactly at the threshold: the test passes
C19_Witness ==
    /\ s_pc = "done" /\ passed
    /\ min_fps = <<2940, 100>> /\ cpu_usage = cpu_threshold
    /\ stream_count >= 2

\* the worker of stream s is inside its decode loop
InLoop(s) == w_pc[s] \in {"top", "pop", "chkeof"}

\* the streams whose next_frame_time was seeded
Seeded == {s \in Streams : t0[s] # NotSeeded}

\* C16: in a run every stream's next_frame_time is seeded with one common
\* start time: no worker is in its decode loop before the next_frame_time of
\* its stream was seeded, and all seeded streams were seeded with the same t0
C16_CommonStartTime ==
    /\ \A s \in Streams : InLoop(s) => s \in Seeded
    /\ \A s \in Seeded : \A u \in Seeded : t0[s] = t0[u]

\* C20: frames_decoded never exceeds total_frames; while the worker loop of
\* the stream runs it is a multiple of kBatchSize; once the harness has
\* joined, it equals total_frames, the drained frames included
C20_PublishedFrames ==
    \A s \in Streams :
        /\ frames_decoded[s] <= total_frames[s]
        /\ InLoop(s) => frames_decoded[s] % kBatchSize = 0
        /\ h_pc = "done" => frames_decoded[s] = total_frames[s]

\* a pooled run is joined after a stream published a batch in its loop and
\* a frame more came out of the decoder
C20_Witness ==
    /\ use_pool
    /\ h_pc = "done"
    /\ \E s \in Streams :
         /\ ~has_error[s]
         /\ total_frames[s] = kBatchSize + 1
         /\ frames_decoded[s] = kBatchSize + 1

\* the candidates the list has to hold for a maximum of m streams
ExpectedCounts(m) ==
    {n \in {1, 2, 4, 8, 16} : n <= m}
      \cup (IF m >= 12 THEN {12} ELSE {})
      \cup {n \in 20..m : (n - 20) % 4 = 0}
      \cup {m}

\* C21: for every max_streams >= 1 the candidate list is strictly ascending,
\* starts at 1, stays within max_streams, ends with max_streams and holds
\* exactly the powers of two up to 16, 12, the values 20, 24, 28, ... and
\* max_streams itself, as far as they are <= max_streams; for 1 it is <<1>>.
C21_CandidateList ==
    LET c == stream_counts IN
    /\ \A i \in 1..(Len(c) - 1) : c[i] < c[i + 1]
    /\ c[1] = 1
    /\ \A i \in 1..Len(c) : c[i] <= b_cfg
    /\ c[Len(c)] = b_cfg
    /\ {c[i] : i \in 1..Len(c)} = ExpectedCounts(b_cfg)
    /\ b_cfg = 1 => c = <<1>>

\* every candidate of the list for 30 streams has been run
C21_Witness ==
    /\ b_cfg = 30
    /\ stream_counts = <<1, 2, 4, 8, 12, 16, 20, 24, 28, 30>>
    /\ b_idx > Len(stream_counts)

\* C22: in test_results every entry that passed has a stream_count smaller
\* than that of the first failed entry after it, whatever the runs gave
C22_PassedBelowNextFailed ==
    \A i \in 1..Len(test_results) : \A j \in (i + 1)..Len(test_results) :
        (/\ test_results[i].passed
         /\ ~test_results[j].passed
         /\ \A k \in (i + 1)..(j - 1) : test_results[k].passed)
            => test_results[i].stream_count < test_results[j].stream_count

\* a binary-search probe passed after the first failure and a later probe
\* failed
C22_Witness ==
    /\ b_pc = "done"
    /\ \E h \in 1..Len(test_results) : \E i \in (h + 1)..Len(test_results) :
         \E j \in (i + 1)..Len(test_results) :
            /\ ~test_results[h].passed
            /\ test_results[i].passed
            /\ ~test_results[j].passed

\* the runs that returned a result without error, as entries of test_results
IsCleanRun(e) == e.kind = "run" /\ ~e.has_error
CleanRuns ==
    LET runs == SelectSeq(events, IsCleanRun) IN
    [i \in 1..Len(runs) |->
        [stream_count |-> runs[i].stream_count, passed |-> runs[i].passed]]

\* C23: a run that reports an error, candidate or probe, ends the benchmark:
\* nothing is run or called after it, the result has success = false and the
\* error message of that run, and test_results holds only the other runs
C23_RunErrorAborts ==
    /\ test_results = CleanRuns
    /\ \A i \in 1..Len(events) :
         (events[i].kind = "run" /\ events[i].has_error) =>
            /\ i = Len(events)
            /\ b_pc = "done"
            /\ ~res_success
            /\ res_error = events[i].error_message

\* a binary-search probe reported an error after four runs without one
C23_Witness ==
    /\ b_pc = "done" /\ ~res_success
    /\ res_error = "Stream 0: Init failed"
    /\ Len(test_results) = 4
    /\ ~test_results[4].passed
    /\ events[Len(events)].has_error
    /\ events[Len(events)].stream_count < test_results[4].stream_count

\* the results the progress callback was called with, in the order of the calls
IsProgress(e) == e.kind = "progress"
ProgressCalls ==
    LET calls == SelectSeq(events, IsProgress) IN
    [i \in 1..Len(calls) |->
        [stream_count |-> calls[i].stream_count, passed |-> calls[i].passed]]

\* C24: a progress callback given to run() is called once for every entry
\* of test_results, in the order of the entries, candidates and probes
\* alike; each call comes right after the run it reports, before the next
\* run, and a run that reported an error is followed by no call
C24_ProgressPerEntry ==
    progress_callback =>
        /\ ProgressCalls = test_results
        /\ \A i \in 1..Len(events) :
             /\ IsProgress(events[i]) =>
                   /\ i > 1
                   /\ IsCleanRun(events[i - 1])
                   /\ events[i - 1].stream_count = events[i].stream_count
                   /\ events[i - 1].passed = events[i].passed
             /\ IsCleanRun(events[i]) => (i < Len(events) /\ IsProgress(events[i + 1]))
             /\ (events[i].kind = "run" /\ events[i].has_error) => i = Len(events)

\* candidates and probes were reported and the last probe ended in an error
C24_Witness ==
    /\ progress_callback
    /\ b_pc = "done"
    /\ Len(test_results) >= 5
    /\ ~test_results[4].passed
    /\ test_results[5].passed
    /\ events[Len(events)].has_error
    /\ Len(events) = 2 * Len(test_results) + 1

\* C25: for a source with the scheme rtsp:// or rtsps:// the runner works
\* with is_live_stream = TRUE, so no reader of the run seeks back to the
\* start of the source: each stays in its first pass
C25_LiveSourceIsLive ==
    (m_pc = "run" /\ is_rtsp(video_path)) =>
        /\ is_live_stream
        /\ \A s \in Streams : r_pass[s] = 1


\* a finished run of a window that was slept exactly, on a codec that holds
\* no frame back, in which stream s was seeded at the harness's start time
\* and never lagged
SteadyRun(s) ==
    /\ h_pc = "done"
    /\ ~sr_has_error
    /\ measurement_duration > 0
    /\ h_elapsed = measurement_duration
    /\ t0[s] = h_start
    /\ lag_count[s] = 0
    /\ d_delay = 0

\* C26: with a decoder that yields one frame per packet and never lags, the
\* final frame count of a stream after join lies between 98% of
\* target_fps x measurement_duration and target_fps x measurement_duration,
\* and the run passes its rate test. One frame is due every FrameInterval
\* clock units, so target_fps x measurement_duration is
\* measurement_duration / FrameInterval frames.
C26_SteadyFrameCount ==
    \A s \in Streams :
        SteadyRun(s) =>
            /\ frames_decoded[s] * FrameInterval * 100 >= kFpsTolerance * measurement_duration
            /\ frames_decoded[s] * FrameInterval <= measurement_duration
            /\ frames_decoded[s] * FrameInterval * 100 >= kFpsTolerance * h_elapsed


\* the worker that owns stream s
OwnerOf(s) == s % worker_count_

\* a step taken while the owner of stream s is at the pop of its decode loop
\* for s: the single-stream loops, or drainUntilFrame called for s
AtPop(s) ==
    \/ w_pc[OwnerOf(s)] = "pop"
    \/ w_pc[OwnerOf(s)] = "drain" /\ scan_stream(OwnerOf(s)) = s

\* the step is one in which the decode loop got a frame for stream s
FrameStep(s) == AtPop(s) /\ total_frames'[s] # total_frames[s]

\* C27: in the single-stream loops and in drainUntilFrame a produced frame
\* adds one to total_frames and next_frame_time is advanced by FrameInterval;
\* with now the clock read after that: later than next_frame_time by more
\* than lag_tolerance, lag_count grows by one, max_lag_ms is at least the
\* lag and next_frame_time is now; earlier than next_frame_time, the
\* single-stream worker sleeps until next_frame_time; otherwise it goes on
\* at once.
C27_PacingStep ==
    [][\A s \in Streams :
         FrameStep(s) =>
           LET due == next_frame_time[s] + FrameInterval
               now == clock
           IN  /\ total_frames'[s] = total_frames[s] + 1
               /\ IF now > due + lag_tolerance
                  THEN /\ lag_count'[s] = lag_count[s] + 1
                       /\ max_lag_ms'[s] >= now - due
                       /\ max_lag_ms'[s] >= max_lag_ms[s]
                       /\ next_frame_time'[s] = now
                       /\ clock' = now
                  ELSE /\ next_frame_time'[s] = due
                       /\ lag_count'[s] = lag_count[s]
                       /\ max_lag_ms'[s] = max_lag_ms[s]
                       /\ clock' = IF now < due /\ w_pc[OwnerOf(s)] = "pop"
                                   THEN due ELSE now]_vars

\* a scan in which stream 1 got its frame on time and stream 0 got its frame
\* two clock units late
C27_Witness ==
    /\ worker_count_ < stream_count
    /\ total_frames[0] = 1 /\ lag_count[0] = 1 /\ max_lag_ms[0] = FrameInterval
    /\ next_frame_time[0] = t0[0] + 2 * FrameInterval
    /\ total_frames[1] = 1 /\ lag_count[1] = 0
    /\ next_frame_time[1] = t0[1] + FrameInterval

\* the step resets the schedule of stream s after a late frame
LagReset(s) == lag_count'[s] # lag_count[s]

\* the step is the flushBuffers call made for a flush marker of stream s
FileLoopFlush(s) == d_last'[s] = "flushBuffers" /\ queue'[s] # queue[s]

\* C28: once seeded, the next_frame_time of a stream never decreases in a
\* step that is neither a lag-reset nor a file-loop flush.
C28_NextFrameTimeMonotonic ==
    [][\A s \in Streams :
         (t0[s] # NotSeeded /\ ~LagReset(s) /\ ~FileLoopFlush(s)) =>
             next_frame_time'[s] >= next_frame_time[s]]_vars

\* a single-stream worker whose first frame was late and whose next two
\* frames were on time
C28_Witness ==
    \E s \in Streams :
        /\ worker_count_ = stream_count
        /\ total_frames[s] = 3 /\ lag_count[s] = 1
        /\ next_frame_time[s] > t0[s] + 3 * FrameInterval

\* C29: right after a pacing step of a stream the clock value the step used
\* is at most lag_tolerance later than next_frame_time.
C29_BoundedDebt ==
    [][\A s \in Streams :
         FrameStep(s) => clock - next_frame_time'[s] <= lag_tolerance]_vars

\* a single-stream worker right after a late frame: its schedule restarts at
\* the clock value it read
C29_Witness ==
    \E s \in Streams :
        /\ worker_count_ = stream_count
        /\ w_pc[s] = "top" /\ total_frames[s] = 1
        /\ lag_count[s] = 1 /\ max_lag_ms[s] = FrameInterval
        /\ next_frame_time[s] = clock

\* the step is a pop of stream s by its pool worker that gives no frame: the
\* pop timed out, or it gave a flush marker, or the decoder kept the packet's
\* frame and reported no error
NoFrameStep(s) ==
    /\ use_pool
    /\ AtPop(s)
    /\ \/ /\ ~popDidPop(queue[s])
          /\ w_pc'[OwnerOf(s)] # w_pc[OwnerOf(s)]
       \/ /\ popDidPop(queue[s])
          /\ queue'[s] = pop(queue[s])
          /\ \/ popPacket(queue[s]) = nullptr
             \/ d_buf'[s] = d_buf[s] + 1 /\ ~has_error'[s]

C31_StopWithinBatch ==
    [][\A s \in Streams :
         /\ (/\ w_pc[s] = "top" /\ w_pc'[s] # "top"
             /\ stop_flag /\ total_frames[s] % kBatchSize = 0)
               => ~InLoop(s)'
         /\ (w_pc[s] = "pop" /\ w_pc'[s] # "pop")
               => /\ total_frames'[s] \in {total_frames[s], total_frames[s] + 1}
                  /\ total_frames'[s] # total_frames[s] => w_pc'[s] = "top"
         /\ (w_pc[s] = "chkeof" /\ w_pc'[s] # "chkeof" /\ isEof(queue[s]))
               => ~InLoop(s)']_vars

\* a pool worker that left its loop at the sixteenth frame, because of the
\* stop flag and not because of EOF or an error
C31_Witness ==
    \E s \in Streams :
        /\ use_pool /\ h_pc = "join" /\ stop_flag
        /\ w_pc[s] = "done" /\ ~finished[s] /\ ~has_error[s]
        /\ total_frames[s] = kBatchSize


\* worker w still has a stream that is neither finished nor errored
StillActive(w) == \E s \in my_streams(w) : ~finished[s] /\ ~has_error[s]

\* the step ends a pass of the scan of worker w
PassEnds(w) ==
    /\ w_pc[w] = "visit" /\ scan_idx[w] > Cardinality(my_streams(w))
    /\ w_pc'[w] # w_pc[w]

WorkerThreads == 0..(worker_count_ - 1)
\* the worker threads that are at stream s: in the single-stream loop of the
\* one stream they own, or visiting s in the scan
WorkersAt(s) ==
    {w \in WorkerThreads :
        \/ w_pc[w] \in {"top", "pop", "chkeof"} /\ s \in my_streams(w)
        \/ w_pc[w] \in {"visit", "drain"} /\ scan_stream(w) = s}
\* the reader-pool threads that are at the reader of stream s
ReadersAt(s) == {r \in ReaderThreads : rp_pc[r] = "scan" /\ rp_idx[r] = s}

C34_PopResumesReader ==
    [][\A r \in ReaderThreads :
         (rp_pc[r] = "woken" /\ rp_pc'[r] # "woken") => rp_pc'[r] = "check"]_vars

\* DecoderPool::join flushes the decoders: the step of the main thread from
\* the join of the workers to the join of the reader threads
MainFlushes == use_pool /\ h_pc = "join" /\ h_pc' # "join"

\* C35: at the end of a pooled run the main thread flushes the decoders only
\* when every worker thread has ended; a stream without error gains one frame
\* in total_frames for each frame its decoder still held and its decoder is
\* left empty, a stream with has_error is left as it is; frames_decoded is
\* then total_frames for every stream, and this is done before the reader
\* threads are joined; a frame count or a decoder is changed by the main
\* thread only in that step, never while a worker is still running.
C35_FinalFlush ==
    [][/\ MainFlushes =>
            /\ \A w \in WorkerThreads : w_pc[w] \in {"done", "none"}
            /\ \A s \in Streams :
                 /\ has_error[s] => total_frames'[s] = total_frames[s] /\ d_buf'[s] = d_buf[s]
                 /\ ~has_error[s] => /\ total_frames'[s] = total_frames[s] + d_buf[s]
                                     /\ d_buf'[s] = 0
                 /\ frames_decoded'[s] = total_frames'[s]
            /\ h_pc' = "join_readers"
       /\ (use_pool /\ (total_frames' # total_frames \/ d_buf' # d_buf))
             => \/ MainFlushes
                \/ h_pc' = h_pc /\ h_pc \notin {"join_readers", "done"}]_vars

\* the workers are joined and a frame the decoder held back at the end of
\* the run has been counted by the final flush
C35_Witness ==
    /\ use_pool /\ h_pc = "join_readers" /\ d_delay > 0
    /\ \E s \in Streams :
         /\ ~has_error[s] /\ d_buf[s] = 0
         /\ total_frames[s] = kBatchSize + 1 /\ frames_decoded[s] = total_frames[s]

\* how many times p occurs in the sequence s
Occurrences(s, p) == Len(SelectSeq(s, LAMBDA x : x = p))

\* C36: every packet copy a successful push created is at any time in
\* exactly one place: queued, taken by a pop that has not returned, held by
\* the consumer, or released; and a copy is released by the consumer after
\* the decode call whatever its result, or by clear(). So the copies released
\* never outnumber the copies made (no double free), every copy is released
\* once the queue is cleared with the consumer idle (no leak), and a flush
\* marker is never given to av_packet_free.
C36_PacketLifetime ==
    /\ \A p \in QPackets :
         Occurrences(pq_pushed, p) =
            Occurrences(pq_freed, p) + Occurrences(c_owned, p)
              + Occurrences(InFlight, p) + Occurrences(pq.items, p)
    /\ Occurrences(pq_freed, nullptr) = 0
    /\ (pq_op = "clear" /\ c_pc = "idle")
          => \A p \in QPackets : Occurrences(pq_freed, p) = Occurrences(pq_pushed, p)

\* copies were released by the consumer and by clear(), which also dropped a
\* flush marker
C36_Witness ==
    /\ pq_op = "clear" /\ pq_cleared
    /\ Len(pq_popped) >= 1 /\ Occurrences(pq_popped, nullptr) = 0
    /\ Occurrences(pq_pushed, nullptr) = 1
    /\ Len(pq_freed) = 3 /\ Len(pq_pushed) = MaxPushes

\* the stream counts of the runs made so far, in order
RunCounts ==
    LET runs == SelectSeq(events, LAMBDA ev : ev.kind = "run")
    IN [i \in 1..Len(runs) |-> runs[i].stream_count]
\* a run was made in this step, of count stream_count
RunMade(count) ==
    /\ Len(RunCounts') = Len(RunCounts) + 1
    /\ RunCounts'[Len(RunCounts')] = count

\* C37: the capacity search makes finitely many runs. No stream count is run
\* twice, so there are never more runs than stream counts up to the
\* configured maximum; a candidate of the list is run only while no candidate
\* has failed; a binary-search probe lies between last_passing + 1 and the
\* first failing candidate - 1; and the binary search is left, without a run
\* error, only with low > high.
C37_FiniteSearch ==
    [][/\ \A i, j \in 1..Len(RunCounts') : i # j => RunCounts'[i] # RunCounts'[j]
       /\ Len(RunCounts') <= b_cfg
       /\ \A count \in 1..MaxStreamsCfg :
            RunMade(count) =>
               IF b_pc = "loop"
               THEN b_count = 0 /\ \A i \in 1..Len(RunCounts) : RunCounts[i] < count
               ELSE /\ b_pc = "bsearch"
                    /\ last_passing + 1 <= count /\ count <= b_count - 1
                    /\ \A i \in 1..Len(RunCounts) : RunCounts[i] <= b_count
       /\ (b_pc = "bsearch" /\ b_pc' = "finish") => low > high]_vars

\* 8 was the first candidate to fail, the probes 6 and 7 passed, and the
\* search ended with low = 8 > high = 7
C37_Witness ==
    /\ b_pc = "done" /\ res_success
    /\ RunCounts = <<1, 2, 4, 8, 6, 7>>
    /\ b_count = 8 /\ last_passing = 7 /\ low = 8 /\ high = 7

\* C38: in a run the harness starts, every worker thread owns exactly one
\* stream: the pool is made with worker_count = stream_count, so worker w
\* owns stream w alone, enters workerLoopSingle and is never in the
\* multi-stream scan; in direct mode every stream has a DecoderThread of its
\* own.
C38_OneStreamPerWorker ==
    (h_pc # "create" /\ ~init_error) =>
        IF use_pool
        THEN /\ worker_count_ = stream_count
             /\ \A w \in WorkerThreads :
                  /\ my_streams(w) = {w}
                  /\ LoopEntry(w) = "top"
                  /\ w_pc[w] \notin {"none", "scan", "visit", "drain", "asleep"}
        ELSE \A s \in AllStreams : (w_pc[s] # "none") = (s \in Streams)

\* two pool workers, each in the single-stream loop of its own stream
C38_Witness ==
    /\ use_pool /\ stream_count = MaxStreams
    /\ w_pc[0] = "pop" /\ w_pc[1] = "top" /\ total_frames[1] = 1

\* C39: when the DecoderPool is constructed and the reader or the decoder of
\* some stream cannot be initialised, the constructor stops at the failing
\* stream of lowest index i: the init error is set with the message
\* "Stream <i>: <detail>", the streams before i have complete contexts, the
\* streams after i have contexts without queue, reader and decoder, and no
\* reader thread, reader-pool thread or worker thread is started.
C39_InitFailure ==
    (use_pool /\ h_pc # "create" /\ FailingStreams # {}) =>
        LET i == CHOOSE s \in FailingStreams : \A u \in FailingStreams : s <= u IN
        /\ init_error
        /\ init_error_message = Message("Stream", i, "Init failed")
        /\ \A s \in Streams :
             /\ s < i => streams_[s] = ContextParts
             /\ s > i => streams_[s] = {}
        /\ "queue" \in streams_[i] /\ "reader" \in streams_[i]
        /\ \A s \in AllStreams : r_pc[s] = "none" /\ w_pc[s] = "none"
        /\ \A r \in 0..(MaxCores - 1) : rp_pc[r] = "none"

\* the decoder of stream 0 and the reader of stream 1 fail: the pool is
\* constructed with the error of stream 0 and an empty context for stream 1
C39_Witness ==
    /\ use_pool /\ h_pc = "arrive" /\ init_error
    /\ stream_count = MaxStreams
    /\ init_fails[0] = "decoder" /\ init_fails[1] = "reader"
    /\ streams_[0] = ContextParts /\ streams_[1] = {}

\* C40: a pool worker sets finished for a stream only in a step in which the
\* stream's queue is empty with eof set, and in that step it copies the
\* reader's error, if there is one, into the stream's error; a finished
\* stream's queue stays empty, and every packet its reader pushed has been
\* popped by then.
C40_FinishedOnlyAtEof ==
    [][\A s \in Streams :
         use_pool =>
            /\ (~finished[s] /\ finished'[s]) =>
                  /\ isEof(queue[s]) /\ queue'[s] = queue[s]
                  /\ IF r_has_error[s]
                     THEN has_error'[s] /\ error_message'[s] = r_error[s]
                     ELSE has_error'[s] = has_error[s]
                          /\ error_message'[s] = error_message[s]
            /\ finished'[s] => isEof(queue'[s]) /\ last_seq'[s] = r_seq'[s]]_vars

\* the worker that scans two streams marked the second finished with the
\* read error of its reader, after popping the packet it had pushed
C40_Witness ==
    /\ use_pool /\ worker_count_ < stream_count
    /\ finished[1] /\ ~finished[0]
    /\ has_error[1] /\ error_message[1] = r_error[1]
    /\ r_seq[1] = 1 /\ last_seq[1] = 1

==============================================================================
